---- MODULE Spec2Model ----
(***************************************************************************)
(* A model of the two tree-walking interpreters of ProjectGolem:           *)
(*   "golemjs"  : src/golemjs/internal/interpreter/interpreter.go          *)
(*   "internal" : src/internal/interpreter/interpreter.go                  *)
(* Objects and AST nodes are records tagged by a `type` field.  The heap   *)
(* of Environments is a sequence; an *Environment is an index into it.     *)
(***************************************************************************)
EXTENDS Integers, Sequences, FiniteSets, TLC

VARIABLES
    pkg,       \* which interpreter package is running
    builtins,  \* the package's built-in registry: name -> Builtin
    envs,      \* the heap of Environments: [store, outer]
    nalloc,    \* number of heap objects allocated so far (the next address)
    env,       \* Interpreter.env of the Interpreter made by New()
    pc,        \* "ready" | "running" | "returned" | "panicked"; "api" in SpecEnv
    idx,       \* evalProgram's loop: the index of the next statement
    program,   \* the Program given to Eval
    result,    \* evalProgram's result variable; what Eval returns in the end
    log,       \* what the evaluation did so far, in order
    call,      \* the last call of the Environment API
    prev,      \* what the run of an earlier Interpreter on the same AST returned
    lexer,     \* the LexerImpl: [input, position, readPosition, ch]
    tokens,    \* the Tokens NextToken has returned so far, in order
    parser,    \* the html Parser: [pos, input, current, stack] and where Parse stands
    nodes,     \* the heap of html Nodes: [Type, TagName, Text, Attrs, Children, Parent]
    astcheck   \* the ast Node given to the type helpers, and what they returned

\* the variables of the lexer and of the html parser
others == <<prev, lexer, tokens, parser, nodes, astcheck>>

vars == <<pkg, builtins, envs, nalloc, env, pc, idx, program, result, log, call, others>>

(***************************************************************************)
(* Bounds.                                                                 *)
(***************************************************************************)
\* number of Environments the Environment API specification may create
MaxEnvs == 2
\* number of pool statements in a generated Program
MaxStmts == 3
\* the Integer operands of an expression are -MaxOperand .. MaxOperand
MaxOperand == 7
\* number of elements of an indexed Array
MaxArrayLen == 3
\* number of ifs a return statement is nested in
MaxDepth == 2
\* number of arguments of a call, of elements of an array literal
MaxArgs == 3

Packages == {"golemjs", "internal"}

(***************************************************************************)
(* Object model.                                                           *)
(***************************************************************************)
NULL_OBJ == "NULL"
ERROR_OBJ == "ERROR"
INTEGER_OBJ == "INTEGER"
STRING_OBJ == "STRING"
BOOLEAN_OBJ == "BOOLEAN"
RETURN_VALUE_OBJ == "RETURN_VALUE"
FUNCTION_OBJ == "FUNCTION"
BUILTIN_OBJ == "BUILTIN"
ARRAY_OBJ == "ARRAY"
HASH_OBJ == "HASH"

\* the nil interface value: what Eval returns for "no Object"
Nil == [type |-> "nil"]
\* a nil *Environment
NilEnv == 0
\* a run-time panic of the host (nil dereference, index out of range, ...)
Fault == [type |-> "FAULT"]

(***************************************************************************)
(* int64.  An int64 is its eight bytes in two's complement, the least      *)
(* significant first, so that +, - and * wrap as the machine's do.         *)
(***************************************************************************)
\* the int64 of a small number n (-2^31 < n < 2^31)
Int64(n) ==
    LET m == IF n < 0 THEN 0 - (n + 1) ELSE n
        b(k) == IF n < 0 THEN 255 - ((m \div (256 ^ k)) % 256) ELSE (m \div (256 ^ k)) % 256
        x == IF n < 0 THEN 255 ELSE 0
    IN  <<b(0), b(1), b(2), b(3), x, x, x, x>>

MaxInt64 == <<255, 255, 255, 255, 255, 255, 255, 127>>
MinInt64 == <<0, 0, 0, 0, 0, 0, 0, 128>>

IsNeg64(a) == a[8] >= 128

\* the bytes k..8 of a + b + carry
RECURSIVE AddBytes(_, _, _, _)
AddBytes(a, b, k, carry) ==
    IF k > 8 THEN <<>>
    ELSE <<(a[k] + b[k] + carry) % 256>>
            \o AddBytes(a, b, k + 1, (a[k] + b[k] + carry) \div 256)

Add64(a, b) == AddBytes(a, b, 1, 0)

Neg64(a) == AddBytes(<<255 - a[1], 255 - a[2], 255 - a[3], 255 - a[4],
                       255 - a[5], 255 - a[6], 255 - a[7], 255 - a[8]>>, Int64(0), 1, 1)

Sub64(a, b) == Add64(a, Neg64(b))

\* the sum of the byte products a[i] * b[j] of weight 256^(k-1), from i on
RECURSIVE MulColumn(_, _, _, _)
MulColumn(a, b, k, i) ==
    IF i > k THEN 0 ELSE a[i] * b[k - i + 1] + MulColumn(a, b, k, i + 1)

RECURSIVE MulBytes(_, _, _, _)
MulBytes(a, b, k, carry) ==
    IF k > 8 THEN <<>>
    ELSE <<(MulColumn(a, b, k, 1) + carry) % 256>>
            \o MulBytes(a, b, k + 1, (MulColumn(a, b, k, 1) + carry) \div 256)

Mul64(a, b) == MulBytes(a, b, 1, 0)

\* a < b as unsigned numbers, decided by the bytes k..1
RECURSIVE ULess(_, _, _)
ULess(a, b, k) ==
    IF k = 0 THEN FALSE
    ELSE IF a[k] # b[k] THEN a[k] < b[k]
    ELSE ULess(a, b, k - 1)

Less64(a, b) == IF IsNeg64(a) # IsNeg64(b) THEN IsNeg64(a) ELSE ULess(a, b, 8)

\* one byte of an unsigned long division by b: the bits j..0 of the byte x
\* are shifted into the remainder r; q collects the quotient bits
RECURSIVE UDivBits(_, _, _, _, _)
RECURSIVE UDivBit(_, _, _, _, _)
UDivBits(x, b, j, r, q) ==
    IF j < 0 THEN [r |-> r, q |-> q]
    ELSE UDivBit(x, b, j, AddBytes(r, r, 1, (x \div (2 ^ j)) % 2), q)

UDivBit(x, b, j, r, q) ==
    IF ULess(r, b, 8) THEN UDivBits(x, b, j - 1, r, 2 * q)
    ELSE UDivBits(x, b, j - 1, Sub64(r, b), 2 * q + 1)

\* the bytes 1..k of the quotient of a by b, where r is the remainder of
\* the bytes above k
RECURSIVE UDivBytes(_, _, _, _)
RECURSIVE UDivByte(_, _, _, _)
UDivBytes(a, b, k, r) ==
    IF k = 0 THEN <<>> ELSE UDivByte(a, b, k, UDivBits(a[k], b, 7, r, 0))

UDivByte(a, b, k, d) == Append(UDivBytes(a, b, k - 1, d.r), d.q)

\* a / b for b # 0: Go's integer division truncates toward zero, and
\* MinInt64 / -1 wraps to MinInt64
\* a division that rounds toward minus infinity
QuotMutantFloor(a, b) ==
    LET ua == IF IsNeg64(a) THEN Neg64(a) ELSE a
        ub == IF IsNeg64(b) THEN Neg64(b) ELSE b
        uq == UDivBytes(ua, ub, 8, Int64(0))
    IN  IF IsNeg64(a) = IsNeg64(b) THEN uq
        ELSE IF Mul64(uq, ub) = ua THEN Neg64(uq)
        ELSE Sub64(Neg64(uq), Int64(1))

Quot(a, b) ==
    LET ua == IF IsNeg64(a) THEN Neg64(a) ELSE a
        ub == IF IsNeg64(b) THEN Neg64(b) ELSE b
        uq == UDivBytes(ua, ub, 8, Int64(0))
    IN  IF IsNeg64(a) # IsNeg64(b) THEN Neg64(uq) ELSE uq

\* the number an int64 in 0 .. 2^31-1 stands for
ToInt(a) == a[1] + 256 * a[2] + 65536 * a[3] + 16777216 * a[4]

\* &Integer{Value: v}
IntegerObject(v) == [type |-> INTEGER_OBJ, Value |-> v]

Integer(n) == IntegerObject(Int64(n))
\* String, Function and ReturnValue objects are compared by pointer in
\* evalInfixExpression, so they carry the address they were allocated at
String(s, addr) == [type |-> STRING_OBJ, Value |-> s, addr |-> addr]
Error(msg) == [type |-> ERROR_OBJ, Message |-> msg]
ReturnValue(o, addr) == [type |-> RETURN_VALUE_OBJ, Value |-> o, addr |-> addr]
Function(params, body, e, addr) ==
    [type |-> FUNCTION_OBJ, Parameters |-> params, Body |-> body, Env |-> e, addr |-> addr]
Builtin(name) == [type |-> BUILTIN_OBJ, Fn |-> name]
Array(elements, addr) == [type |-> ARRAY_OBJ, Elements |-> elements, addr |-> addr]
\* Pairs maps a HashKey to its HashPair [Key, Value]
Hash(pairs, addr) == [type |-> HASH_OBJ, Pairs |-> pairs, addr |-> addr]

\* no call of the Environment API was made yet
NoCall == [op |-> "none"]

\* no earlier run, no lexer and no html parser
NoRun == [run |-> 0]
NoLexer == [input |-> <<>>, position |-> 0, readPosition |-> 0, ch |-> 0]
NoParser == [pos |-> 0, input |-> <<>>, current |-> 0, stack |-> <<>>, at |-> "none"]
NoCheck == [at |-> "none"]

OthersIdle ==
    /\ prev = NoRun
    /\ lexer = NoLexer
    /\ tokens = <<>>
    /\ parser = NoParser
    /\ nodes = <<>>
    /\ astcheck = NoCheck

\* the three package-level objects; addr is where each lives
TRUE_ == [type |-> BOOLEAN_OBJ, Value |-> TRUE, addr |-> "TRUE"]
FALSE_ == [type |-> BOOLEAN_OBJ, Value |-> FALSE, addr |-> "FALSE"]
NULL == [type |-> NULL_OBJ, addr |-> "NULL"]

(***************************************************************************)
(* Environment.                                                            *)
(***************************************************************************)
EmptyStore == [n \in {} |-> Nil]

\* golemjs: NewEnvironment(outer); internal: NewEnvironment() has outer = nil
NewEnvironment(h, outer) ==
    [h |-> Append(h, [store |-> EmptyStore, outer |-> outer]), env |-> Len(h) + 1]

\* internal: NewEnclosedEnvironment(outer)
NewEnclosedEnvironment(h, outer) ==
    LET r == NewEnvironment(h, NilEnv)
    IN  [h |-> [r.h EXCEPT ![r.env].outer = outer], env |-> r.env]

RECURSIVE GetMutantOuterFirst(_, _, _)
GetMutantOuterFirst(h, e, name) ==
    LET up == IF h[e].outer # NilEnv
              THEN GetMutantOuterFirst(h, h[e].outer, name)
              ELSE [obj |-> Nil, ok |-> FALSE]
    IN  IF up.ok THEN up
        ELSE IF name \in DOMAIN h[e].store
             THEN [obj |-> h[e].store[name], ok |-> TRUE]
             ELSE [obj |-> Nil, ok |-> FALSE]

RECURSIVE Get(_, _, _)
Get(h, e, name) ==
    LET ok == name \in DOMAIN h[e].store
        obj == IF ok THEN h[e].store[name] ELSE Nil
    IN  IF ~ok /\ h[e].outer # NilEnv
        THEN Get(h, h[e].outer, name)
        ELSE [obj |-> obj, ok |-> ok]

StorePut(s, name, val) ==
    [n \in DOMAIN s \cup {name} |-> IF n = name THEN val ELSE s[n]]

\* a Set that assigns to the nearest existing binding instead of the receiver
SetMutantWriteThrough(h, e, name, val) ==
    IF name \notin DOMAIN h[e].store /\ h[e].outer # NilEnv
       /\ name \in DOMAIN h[h[e].outer].store
    THEN [h |-> [h EXCEPT ![h[e].outer].store = StorePut(@, name, val)], ret |-> val]
    ELSE [h |-> [h EXCEPT ![e].store = StorePut(@, name, val)], ret |-> val]

Set(h, e, name, val) ==
    [h |-> [h EXCEPT ![e].store = StorePut(@, name, val)], ret |-> val]

(***************************************************************************)
(* AST nodes, with the fields the interpreters read.                       *)
(***************************************************************************)
\* a nil node (an absent Alternative, an absent ReturnValue)
NoNode == [type |-> "nil"]
Program(stmts) == [type |-> "Program", Statements |-> stmts]
ExpressionStatement(x) == [type |-> "ExpressionStatement", Expression |-> x]
\* Value is an int64
IntegerLiteral(n) == [type |-> "IntegerLiteral", Value |-> Int64(n)]
StringLiteral(s) == [type |-> "StringLiteral", Value |-> s]
BooleanLiteral(b) == [type |-> "Boolean", Value |-> b]
PrefixExpression(op, right) == [type |-> "PrefixExpression", Operator |-> op, Right |-> right]
InfixExpression(op, left, right) ==
    [type |-> "InfixExpression", Operator |-> op, Left |-> left, Right |-> right]
BlockStatement(stmts) == [type |-> "BlockStatement", Statements |-> stmts]
IfExpression(cond, cons, alt) ==
    [type |-> "IfExpression", Condition |-> cond, Consequence |-> cons, Alternative |-> alt]
ReturnStatement(x) == [type |-> "ReturnStatement", ReturnValue |-> x]
LetStatement(name, x) == [type |-> "LetStatement", Name |-> name, Value |-> x]
Identifier(name) == [type |-> "Identifier", Value |-> name]
FunctionLiteral(params, body) ==
    [type |-> "FunctionLiteral", Parameters |-> params, Body |-> body]
CallExpression(fn, args) == [type |-> "CallExpression", Function |-> fn, Arguments |-> args]
ArrayLiteral(elements) == [type |-> "ArrayLiteral", Elements |-> elements]
IndexExpression(left, index) == [type |-> "IndexExpression", Left |-> left, Index |-> index]
\* Pairs is a Go map from key node to value node, ranged over in an order
\* the runtime chooses: it is given as the sequence of [Key, Value] in the
\* order of this run
HashLiteral(pairs) == [type |-> "HashLiteral", Pairs |-> pairs]

(***************************************************************************)
(* Evaluation threads a store st = [envs, nalloc, log] through the tree    *)
(* walk; every operator that can change it returns [val, st].              *)
(***************************************************************************)
R(val, st) == [val |-> val, st |-> st]
Log(st, entry) == [st EXCEPT !.log = Append(@, entry)]
Alloc(st) == [st EXCEPT !.nalloc = @ + 1]

IsFault(obj) == obj.type = "FAULT"

\* obj.Type(); the callers guard the nil receiver, which panics
Type(obj) == obj.type

\* an isError that never recognises an Error
isErrorMutantNever(obj) == FALSE

isError(obj) == IF obj # Nil THEN Type(obj) = ERROR_OBJ ELSE FALSE

newError(msg, st) == R(Error(msg), Log(st, [ev |-> "error", msg |-> msg]))

\* a nativeBoolToBooleanObject that allocates the Boolean it returns
nativeBoolToBooleanObjectMutantAllocates(input) ==
    [type |-> BOOLEAN_OBJ, Value |-> input, addr |-> "heap"]

nativeBoolToBooleanObject(input) == IF input THEN TRUE_ ELSE FALSE_

\* left == right on two interface values holding pointers: the same object.
\* Integers and Errors carry no address: two Integers go to
\* evalIntegerInfixExpression and an Error is returned by the caller, so two
\* of them never reach a pointer comparison.
SameObject(left, right) ==
    /\ left.type = right.type
    /\ CASE left.type = "nil" -> TRUE
         [] left.type = BUILTIN_OBJ -> left.Fn = right.Fn
         [] left.type \in {INTEGER_OBJ, ERROR_OBJ} -> FALSE
         [] OTHER -> left.addr = right.addr

isTruthy(obj) ==
    CASE SameObject(obj, NULL) -> FALSE
      [] SameObject(obj, TRUE_) -> TRUE
      [] SameObject(obj, FALSE_) -> FALSE
      [] OTHER -> TRUE

\* a ! for which the Integer 0 is falsy
evalBangOperatorExpressionMutantZeroFalsy(right) ==
    CASE SameObject(right, TRUE_) -> FALSE_
      [] SameObject(right, FALSE_) -> TRUE_
      [] SameObject(right, NULL) -> TRUE_
      [] right.type = INTEGER_OBJ /\ right.Value = Int64(0) -> TRUE_
      [] OTHER -> FALSE_

evalBangOperatorExpression(right) ==
    CASE SameObject(right, TRUE_) -> FALSE_
      [] SameObject(right, FALSE_) -> TRUE_
      [] SameObject(right, NULL) -> TRUE_
      [] OTHER -> FALSE_

evalMinusPrefixOperatorExpression(right, st) ==
    IF right = Nil THEN R(Fault, st)
    ELSE IF Type(right) # INTEGER_OBJ
    THEN newError("unknown operator: -" \o Type(right), st)
    ELSE R(IntegerObject(Neg64(right.Value)), st)

evalPrefixOperator(operator, right, st) ==
    CASE operator = "!" -> R(evalBangOperatorExpression(right), st)
      [] operator = "-" -> evalMinusPrefixOperatorExpression(right, st)
      [] OTHER -> IF right = Nil THEN R(Fault, st)
                  ELSE newError("unknown operator: " \o operator \o Type(right), st)

\* the log records the operator and the operand it is applied to
evalPrefixExpression(operator, right, st) ==
    evalPrefixOperator(operator, right,
        Log(st, [ev |-> "prefix", op |-> operator, right |-> right]))

evalIntegerInfixExpression(operator, left, right, st) ==
    LET leftVal == left.Value
        rightVal == right.Value
    IN  CASE operator = "+" -> R(IntegerObject(Add64(leftVal, rightVal)), st)
          [] operator = "-" -> R(IntegerObject(Sub64(leftVal, rightVal)), st)
          [] operator = "*" -> R(IntegerObject(Mul64(leftVal, rightVal)), st)
          \* an integer division by zero panics
          [] operator = "/" -> IF rightVal = Int64(0) THEN R(Fault, st)
                               ELSE R(IntegerObject(Quot(leftVal, rightVal)), st)
          [] operator = "<" -> R(nativeBoolToBooleanObject(Less64(leftVal, rightVal)), st)
          [] operator = ">" -> R(nativeBoolToBooleanObject(Less64(rightVal, leftVal)), st)
          [] operator = "==" -> R(nativeBoolToBooleanObject(leftVal = rightVal), st)
          [] operator = "!=" -> R(nativeBoolToBooleanObject(leftVal # rightVal), st)
          [] OTHER -> newError("unknown operator: " \o Type(left) \o " " \o operator
                                 \o " " \o Type(right), st)

\* an evalStringInfixExpression that puts the right operand first
evalStringInfixExpressionMutantSwapped(left, right, st) ==
    IF Type(left) = STRING_OBJ /\ right = Nil THEN R(Fault, st)
    ELSE IF Type(left) # STRING_OBJ \/ Type(right) # STRING_OBJ
    THEN IF right = Nil THEN R(Fault, st)
         ELSE newError("type mismatch: " \o Type(left) \o " + " \o Type(right), st)
    ELSE R(String(right.Value \o left.Value, st.nalloc), Alloc(st))

\* golemjs only
evalStringInfixExpression(left, right, st) ==
    IF Type(left) = STRING_OBJ /\ right = Nil THEN R(Fault, st)
    ELSE IF Type(left) # STRING_OBJ \/ Type(right) # STRING_OBJ
    THEN IF right = Nil THEN R(Fault, st)
         ELSE newError("type mismatch: " \o Type(left) \o " + " \o Type(right), st)
    ELSE R(String(left.Value \o right.Value, st.nalloc), Alloc(st))

\* an evalInfixExpression without the case of differing operand types
evalInfixOperatorMutantNoMismatch(operator, left, right, st) ==
    IF left = Nil THEN R(Fault, st)
    ELSE IF Type(left) = INTEGER_OBJ /\ right = Nil THEN R(Fault, st)
    ELSE IF Type(left) = INTEGER_OBJ /\ Type(right) = INTEGER_OBJ
    THEN evalIntegerInfixExpression(operator, left, right, st)
    ELSE IF operator = "=="
    THEN R(nativeBoolToBooleanObject(SameObject(left, right)), st)
    ELSE IF operator = "!="
    THEN R(nativeBoolToBooleanObject(~SameObject(left, right)), st)
    ELSE IF right = Nil THEN R(Fault, st)
    ELSE newError("unknown operator: " \o Type(left) \o " " \o operator \o " " \o Type(right), st)

evalInfixOperator(operator, left, right, st) ==
    IF left = Nil THEN R(Fault, st)
    ELSE IF Type(left) = INTEGER_OBJ /\ right = Nil THEN R(Fault, st)
    ELSE IF Type(left) = INTEGER_OBJ /\ Type(right) = INTEGER_OBJ
    THEN evalIntegerInfixExpression(operator, left, right, st)
    ELSE IF pkg = "golemjs" /\ operator = "+"
    THEN evalStringInfixExpression(left, right, st)
    ELSE IF operator = "=="
    THEN R(nativeBoolToBooleanObject(SameObject(left, right)), st)
    ELSE IF operator = "!="
    THEN R(nativeBoolToBooleanObject(~SameObject(left, right)), st)
    ELSE IF right = Nil THEN R(Fault, st)
    ELSE IF Type(left) # Type(right)
    THEN newError("type mismatch: " \o Type(left) \o " " \o operator \o " " \o Type(right), st)
    ELSE newError("unknown operator: " \o Type(left) \o " " \o operator \o " " \o Type(right), st)

\* the log records the operator and the operands it is applied to
evalInfixExpression(operator, left, right, st) ==
    evalInfixOperator(operator, left, right,
        Log(st, [ev |-> "infix", op |-> operator, left |-> left, right |-> right]))

(***************************************************************************)
(* Index expressions (golemjs only).                                       *)
(***************************************************************************)
\* obj.(Hashable): no Object type of the package has a HashKey method
Hashable(obj) == FALSE

\* key.HashKey(): the HashKey{Type, Value} of a Hashable
HashKey(obj) == [Type |-> obj.type, Value |-> obj.Value]

\* index.(*Integer) panics when index is not an Integer
evalArrayIndexExpression(array, index, st) ==
    IF index.type # INTEGER_OBJ THEN R(Fault, st)
    ELSE IF IsNeg64(index.Value) \/ Less64(Int64(Len(array.Elements) - 1), index.Value)
    THEN R(NULL, st)
    ELSE R(array.Elements[ToInt(index.Value) + 1], st)

evalHashIndexExpression(hash, index, st) ==
    IF ~Hashable(index)
    THEN IF index = Nil THEN R(Fault, st)
         ELSE newError("unusable as hash key: " \o Type(index), st)
    ELSE IF HashKey(index) \notin DOMAIN hash.Pairs THEN R(NULL, st)
    ELSE R(hash.Pairs[HashKey(index)].Value, st)

evalIndexOperator(left, index, st) ==
    CASE left = Nil -> R(Fault, st)
      [] Type(left) = ARRAY_OBJ -> evalArrayIndexExpression(left, index, st)
      [] Type(left) = HASH_OBJ -> evalHashIndexExpression(left, index, st)
      [] OTHER -> newError("index operator not supported: " \o Type(left), st)

\* the log records the collection and the index
evalIndexExpression(left, index, st) ==
    evalIndexOperator(left, index, Log(st, [ev |-> "index", left |-> left, index |-> index]))

(***************************************************************************)
(* Built-ins (golemjs only; the internal package has no registry).         *)
(***************************************************************************)
BuiltinNames == {"len", "first", "last", "rest", "push", "puts"}

Registry(p) ==
    IF p = "golemjs" THEN [n \in BuiltinNames |-> Builtin(n)] ELSE EmptyStore

Digit(d) == CASE d = 0 -> "0" [] d = 1 -> "1" [] d = 2 -> "2" [] d = 3 -> "3" [] d = 4 -> "4"
              [] d = 5 -> "5" [] d = 6 -> "6" [] d = 7 -> "7" [] d = 8 -> "8" [] d = 9 -> "9"

\* fmt's %d of a non-negative int
RECURSIVE Itoa(_)
Itoa(n) == IF n < 10 THEN Digit(n) ELSE Itoa(n \div 10) \o Digit(n % 10)

WrongArgs(got, want, st) ==
    newError("wrong number of arguments. got=" \o Itoa(got) \o ", want=" \o Itoa(want), st)

\* built-ins of which rest counts its arguments only when there is none
newElementsMutantPrepends(elements, v) == <<v>> \o elements

\* push: newElements is a slice of length+1 that arr.Elements is copied into
\* and whose last element is args[1]
newElements(elements, v) == Append(elements, v)

ApplyBuiltinMutantRestCountsLate(name, args, st) ==
    CASE name = "len" ->
            IF Len(args) # 1 THEN WrongArgs(Len(args), 1, st)
            ELSE IF args[1].type = ARRAY_OBJ THEN R(Integer(Len(args[1].Elements)), st)
            ELSE IF args[1].type = STRING_OBJ THEN R(Integer(Len(args[1].Value)), st)
            ELSE IF args[1] = Nil THEN R(Fault, st)
            ELSE newError("argument to 'len' not supported, got " \o Type(args[1]), st)
      [] name \in {"first", "last", "rest"} ->
            IF Len(args) # 1 /\ (name # "rest" \/ Len(args) = 0) THEN WrongArgs(Len(args), 1, st)
            ELSE IF args[1] = Nil THEN R(Fault, st)
            ELSE IF Type(args[1]) # ARRAY_OBJ
            THEN newError("argument to '" \o name \o "' must be ARRAY, got " \o Type(args[1]), st)
            ELSE IF Len(args[1].Elements) = 0 THEN R(NULL, st)
            ELSE IF name = "first" THEN R(args[1].Elements[1], st)
            ELSE IF name = "last" THEN R(args[1].Elements[Len(args[1].Elements)], st)
            ELSE R(Array(Tail(args[1].Elements), st.nalloc), Alloc(st))
      [] name = "push" ->
            IF Len(args) # 2 THEN WrongArgs(Len(args), 2, st)
            ELSE IF args[1] = Nil THEN R(Fault, st)
            ELSE IF Type(args[1]) # ARRAY_OBJ
            THEN newError("argument to 'push' must be ARRAY, got " \o Type(args[1]), st)
            ELSE R(Array(newElements(args[1].Elements, args[2]), st.nalloc), Alloc(st))
      [] name = "puts" ->
            IF \E k \in DOMAIN args : args[k] = Nil THEN R(Fault, st)
            ELSE R(NULL, Log(st, [ev |-> "puts", nargs |-> Len(args)]))

\* builtins[name].Fn(args...); the back quotes of the messages are written '
ApplyBuiltin(name, args, st) ==
    CASE name = "len" ->
            IF Len(args) # 1 THEN WrongArgs(Len(args), 1, st)
            ELSE IF args[1].type = ARRAY_OBJ THEN R(Integer(Len(args[1].Elements)), st)
            ELSE IF args[1].type = STRING_OBJ THEN R(Integer(Len(args[1].Value)), st)
            ELSE IF args[1] = Nil THEN R(Fault, st)
            ELSE newError("argument to 'len' not supported, got " \o Type(args[1]), st)
      [] name \in {"first", "last", "rest"} ->
            IF Len(args) # 1 THEN WrongArgs(Len(args), 1, st)
            ELSE IF args[1] = Nil THEN R(Fault, st)
            ELSE IF Type(args[1]) # ARRAY_OBJ
            THEN newError("argument to '" \o name \o "' must be ARRAY, got " \o Type(args[1]), st)
            ELSE IF Len(args[1].Elements) = 0 THEN R(NULL, st)
            ELSE IF name = "first" THEN R(args[1].Elements[1], st)
            ELSE IF name = "last" THEN R(args[1].Elements[Len(args[1].Elements)], st)
            ELSE R(Array(Tail(args[1].Elements), st.nalloc), Alloc(st))
      [] name = "push" ->
            IF Len(args) # 2 THEN WrongArgs(Len(args), 2, st)
            ELSE IF args[1] = Nil THEN R(Fault, st)
            ELSE IF Type(args[1]) # ARRAY_OBJ
            THEN newError("argument to 'push' must be ARRAY, got " \o Type(args[1]), st)
            ELSE R(Array(newElements(args[1].Elements, args[2]), st.nalloc), Alloc(st))
      [] name = "puts" ->
            IF \E k \in DOMAIN args : args[k] = Nil THEN R(Fault, st)
            ELSE R(NULL, Log(st, [ev |-> "puts", nargs |-> Len(args)]))

(***************************************************************************)
(* The tree walk.  e is the env field of the Interpreter doing the walk.   *)
(* A handler that evaluates a sub-node and then goes on is written as the  *)
(* operator up to that call and one operator for what follows it.          *)
(***************************************************************************)
RECURSIVE Eval(_, _, _)
RECURSIVE evalProgramLoop(_, _, _, _, _)
RECURSIVE evalProgramStep(_, _, _, _)
RECURSIVE evalBlockStatementLoop(_, _, _, _, _)
RECURSIVE evalBlockStatementStep(_, _, _, _)
RECURSIVE evalBlockStatementStepMutantReturnGoesOn(_, _, _, _)
RECURSIVE evalExpressionsLoop(_, _, _, _, _)
RECURSIVE evalExpressionsStep(_, _, _, _, _)
RECURSIVE evalIfCondition(_, _, _)
RECURSIVE EvalInfixLeft(_, _, _)
RECURSIVE EvalCallFunction(_, _, _)
RECURSIVE EvalCallArguments(_, _, _)
RECURSIVE applyFunction(_, _, _, _)
RECURSIVE applyFunctionBody(_, _, _)
RECURSIVE evalHashLiteralLoop(_, _, _, _, _)

\* the sub-evaluation panicked, or the caller's isError check sends it back
Aborts(r) == r.val.type = "FAULT" \/ isError(r.val)

\* an evalIdentifier that consults the built-in registry first
evalIdentifierMutantBuiltinFirst(node, e, st) ==
    LET g == Get(st.envs, e, node.Value)
    IN  IF node.Value \in DOMAIN builtins THEN R(builtins[node.Value], st)
        ELSE IF g.ok THEN R(g.obj, st)
        ELSE newError("identifier not found: " \o node.Value, st)

evalIdentifier(node, e, st) ==
    LET g == Get(st.envs, e, node.Value)
    IN  IF g.ok THEN R(g.obj, st)
        ELSE IF node.Value \in DOMAIN builtins THEN R(builtins[node.Value], st)
        ELSE newError("identifier not found: " \o node.Value, st)

\* the loop of evalProgram from statement k on; last is the result so far
evalProgramLoop(stmts, k, last, e, st) ==
    IF k > Len(stmts) THEN R(last, st)
    ELSE evalProgramStep(stmts, k, e, Eval(stmts[k], e, st))

evalProgramStep(stmts, k, e, r) ==
    CASE r.val.type = "FAULT" -> r
      [] r.val.type = RETURN_VALUE_OBJ -> R(r.val.Value, r.st)
      [] r.val.type = ERROR_OBJ -> r
      [] OTHER -> evalProgramLoop(stmts, k + 1, r.val, e, r.st)

evalProgram(prog, e, st) == evalProgramLoop(prog.Statements, 1, Nil, e, st)

\* the loop of evalBlockStatement from statement k on
evalBlockStatementLoop(stmts, k, last, e, st) ==
    IF k > Len(stmts) THEN R(last, st)
    ELSE evalBlockStatementStep(stmts, k, e, Eval(stmts[k], e, st))

\* a block that is halted by an Error only
evalBlockStatementStepMutantReturnGoesOn(stmts, k, e, r) ==
    CASE r.val.type = "FAULT" -> r
      [] r.val # Nil /\ Type(r.val) = ERROR_OBJ -> r
      [] OTHER -> evalBlockStatementLoop(stmts, k + 1, r.val, e, r.st)

evalBlockStatementStep(stmts, k, e, r) ==
    CASE r.val.type = "FAULT" -> r
      [] r.val # Nil /\ (Type(r.val) = RETURN_VALUE_OBJ \/ Type(r.val) = ERROR_OBJ) -> r
      [] OTHER -> evalBlockStatementLoop(stmts, k + 1, r.val, e, r.st)

evalBlockStatement(block, e, st) == evalBlockStatementLoop(block.Statements, 1, Nil, e, st)

\* the loop of evalExpressions from expression k on; returns [vals, st, fault]
evalExpressionsLoop(exps, k, acc, e, st) ==
    IF k > Len(exps) THEN [vals |-> acc, st |-> st, fault |-> FALSE]
    ELSE evalExpressionsStep(exps, k, acc, e, Eval(exps[k], e, st))

\* an evalExpressions that goes on after an Error
evalExpressionsStepMutantGoesOn(exps, k, acc, e, r) ==
    CASE r.val.type = "FAULT" -> [vals |-> <<>>, st |-> r.st, fault |-> TRUE]
      [] OTHER -> evalExpressionsLoop(exps, k + 1, Append(acc, r.val), e, r.st)

evalExpressionsStep(exps, k, acc, e, r) ==
    CASE r.val.type = "FAULT" -> [vals |-> <<>>, st |-> r.st, fault |-> TRUE]
      [] isError(r.val) -> [vals |-> <<r.val>>, st |-> r.st, fault |-> FALSE]
      [] OTHER -> evalExpressionsLoop(exps, k + 1, Append(acc, r.val), e, r.st)

evalExpressions(exps, e, st) == evalExpressionsLoop(exps, 1, <<>>, e, st)

evalIfExpression(ie, e, st) == evalIfCondition(ie, e, Eval(ie.Condition, e, st))

\* an if whose missing alternative yields no object
evalIfConditionMutantAbsent(ie, e, condition) ==
    CASE Aborts(condition) -> condition
      [] isTruthy(condition.val) -> Eval(ie.Consequence, e, condition.st)
      [] ie.Alternative # NoNode -> Eval(ie.Alternative, e, condition.st)
      [] OTHER -> R(Nil, condition.st)

evalIfCondition(ie, e, condition) ==
    CASE Aborts(condition) -> condition
      [] isTruthy(condition.val) -> Eval(ie.Consequence, e, condition.st)
      [] ie.Alternative # NoNode -> Eval(ie.Alternative, e, condition.st)
      [] OTHER -> R(NULL, condition.st)

\* binds the parameters in a new Environment; args[paramIdx] panics when
\* there are fewer arguments than parameters
extendFunctionEnv(fn, args, st) ==
    LET n == IF pkg = "golemjs" THEN NewEnvironment(st.envs, fn.Env)
             ELSE NewEnclosedEnvironment(st.envs, fn.Env)
        bound == IF Len(args) < Len(fn.Parameters) THEN Len(args) ELSE Len(fn.Parameters)
        \* a parameter name that occurs twice keeps its last argument
        last(p) == CHOOSE k \in 1..bound :
                      /\ fn.Parameters[k] = p
                      /\ \A j \in 1..bound : fn.Parameters[j] = p => j <= k
        store == [p \in {fn.Parameters[k] : k \in 1..bound} |-> args[last(p)]]
    IN  [env |-> n.env,
         st |-> [st EXCEPT !.envs = [n.h EXCEPT ![n.env].store = store]],
         fault |-> Len(args) < Len(fn.Parameters)]

unwrapReturnValue(obj) ==
    IF obj.type = RETURN_VALUE_OBJ THEN obj.Value ELSE obj

\* the call returns unwrapReturnValue(evaluated)
applyFunctionUnwrap(evaluated) ==
    IF evaluated.val.type = "FAULT" THEN evaluated
    ELSE R(unwrapReturnValue(evaluated.val),
           Log(evaluated.st, [ev |-> "return", val |-> unwrapReturnValue(evaluated.val).type]))

\* golemjs evaluates the body with i, whose env is e (extendedEnv is not
\* used); internal with a new Interpreter whose env is the extended one
applyFunctionBody(fn, e, extended) ==
    IF extended.fault THEN R(Fault, extended.st)
    ELSE applyFunctionUnwrap(
            Eval(fn.Body, IF pkg = "golemjs" THEN e ELSE extended.env, extended.st))

\* the log records the function applied and the arguments it receives
applyFunction(fn, args, e, st) ==
    CASE fn.type = FUNCTION_OBJ ->
            applyFunctionBody(fn, e,
                extendFunctionEnv(fn, args,
                    Log(st, [ev |-> "apply", fn |-> fn.addr, nargs |-> Len(args),
                             args |-> args])))
      [] fn.type = BUILTIN_OBJ ->
            ApplyBuiltin(fn.Fn, args,
                Log(st, [ev |-> "apply", fn |-> fn.Fn, nargs |-> Len(args), args |-> args]))
      [] fn = Nil -> R(Fault, st)
      [] OTHER -> newError("not a function: " \o Type(fn), st)

EvalPrefixRight(node, right) ==
    IF Aborts(right) THEN right
    ELSE evalPrefixExpression(node.Operator, right.val, right.st)

EvalInfixRight(node, left, right) ==
    IF Aborts(right) THEN right
    ELSE evalInfixExpression(node.Operator, left.val, right.val, right.st)

EvalInfixLeft(node, e, left) ==
    IF Aborts(left) THEN left
    ELSE EvalInfixRight(node, left, Eval(node.Right, e, left.st))

EvalReturnValue(val) ==
    IF Aborts(val) THEN val
    ELSE R(ReturnValue(val.val, val.st.nalloc), Alloc(val.st))

EvalLetValue(node, e, val) ==
    LET s == Set(val.st.envs, e, node.Name, val.val)
        st2 == Log([val.st EXCEPT !.envs = s.h],
                   [ev |-> "set", env |-> e, name |-> node.Name])
    IN  IF Aborts(val) THEN val
        \* golemjs falls out of the switch to `return nil`
        ELSE IF pkg = "golemjs" THEN R(Nil, st2)
        ELSE R(s.ret, st2)

EvalCallArguments(e, fn, args) ==
    CASE args.fault -> R(Fault, args.st)
      [] Len(args.vals) = 1 /\ isError(args.vals[1]) -> R(args.vals[1], args.st)
      [] OTHER -> applyFunction(fn, args.vals, e, args.st)

EvalCallFunction(node, e, function) ==
    IF Aborts(function) THEN function
    ELSE EvalCallArguments(e, function.val,
            evalExpressions(node.Arguments, e, function.st))

\* case *ast.ArrayLiteral, after evalExpressions
EvalArrayElements(elements) ==
    CASE elements.fault -> R(Fault, elements.st)
      [] Len(elements.vals) = 1 /\ isError(elements.vals[1]) ->
            R(elements.vals[1], elements.st)
      [] OTHER -> R(Array(elements.vals, elements.st.nalloc), Alloc(elements.st))

EvalIndexIndex(left, index) ==
    IF Aborts(index) THEN index
    ELSE evalIndexExpression(left.val, index.val, index.st)

EvalIndexLeft(node, e, left) ==
    IF Aborts(left) THEN left
    ELSE EvalIndexIndex(left, Eval(node.Index, e, left.st))

\* pairs[hashed] = HashPair{Key: key, Value: value}
evalHashLiteralValue(pairs, k, acc, e, key, value) ==
    IF Aborts(value) THEN value
    ELSE evalHashLiteralLoop(pairs, k + 1,
            [h \in DOMAIN acc \cup {HashKey(key.val)} |->
                IF h = HashKey(key.val) THEN [Key |-> key.val, Value |-> value.val]
                ELSE acc[h]],
            e, value.st)

\* key.Type() panics on a nil key
evalHashLiteralKey(pairs, k, acc, e, key) ==
    CASE Aborts(key) -> key
      [] ~Hashable(key.val) ->
            IF key.val = Nil THEN R(Fault, key.st)
            ELSE newError("unusable as hash key: " \o Type(key.val), key.st)
      [] OTHER -> evalHashLiteralValue(pairs, k, acc, e, key,
                        Eval(pairs[k].Value, e, key.st))

\* the loop of evalHashLiteral from pair k on; acc is the map built so far
evalHashLiteralLoop(pairs, k, acc, e, st) ==
    IF k > Len(pairs) THEN R(Hash(acc, st.nalloc), Alloc(st))
    ELSE evalHashLiteralKey(pairs, k, acc, e, Eval(pairs[k].Key, e, st))

evalHashLiteral(node, e, st) == evalHashLiteralLoop(node.Pairs, 1, EmptyStore, e, st)

\* a function literal that captures a copy of the current Environment
evalFunctionLiteralMutantCopies(node, e, st) ==
    LET copy == Append(st.envs, st.envs[e])
    IN  R(Function(node.Parameters, node.Body, Len(copy), st.nalloc),
          Alloc([st EXCEPT !.envs = copy]))

\* &Function{Parameters: params, Body: body, Env: i.env}
evalFunctionLiteral(node, e, st) ==
    R(Function(node.Parameters, node.Body, e, st.nalloc), Alloc(st))

\* the name a node carries, if any
NodeName(node) ==
    CASE node.type \in {"Identifier", "StringLiteral"} -> node.Value
      [] node.type = "LetStatement" -> node.Name
      [] node.type \in {"PrefixExpression", "InfixExpression"} -> node.Operator
      [] OTHER -> ""

\* Eval is entered with node
Enter(st, node) == Log(st, [ev |-> "eval", node |-> node.type, name |-> NodeName(node)])

EvalDefaultMutantError(node, st) ==
    newError("unknown node: " \o node.type, Enter(st, node))

\* no case of the switch matches: return nil
EvalDefault(node, st) == R(Nil, Enter(st, node))

Eval(node, e, st) ==
    CASE node.type = "Program" -> evalProgram(node, e, Enter(st, node))
      [] node.type = "ExpressionStatement" -> Eval(node.Expression, e, Enter(st, node))
      [] node.type = "IntegerLiteral" -> R(IntegerObject(node.Value), Enter(st, node))
      [] node.type = "StringLiteral" /\ pkg = "golemjs" ->
            R(String(node.Value, st.nalloc), Alloc(Enter(st, node)))
      [] node.type = "Boolean" ->
            R(nativeBoolToBooleanObject(node.Value), Enter(st, node))
      [] node.type = "PrefixExpression" ->
            EvalPrefixRight(node, Eval(node.Right, e, Enter(st, node)))
      [] node.type = "InfixExpression" ->
            EvalInfixLeft(node, e, Eval(node.Left, e, Enter(st, node)))
      [] node.type = "BlockStatement" -> evalBlockStatement(node, e, Enter(st, node))
      [] node.type = "IfExpression" -> evalIfExpression(node, e, Enter(st, node))
      [] node.type = "ReturnStatement" ->
            EvalReturnValue(Eval(node.ReturnValue, e, Enter(st, node)))
      [] node.type = "LetStatement" ->
            EvalLetValue(node, e, Eval(node.Value, e, Enter(st, node)))
      [] node.type = "Identifier" -> evalIdentifier(node, e, Enter(st, node))
      [] node.type = "FunctionLiteral" -> evalFunctionLiteral(node, e, Enter(st, node))
      [] node.type = "CallExpression" ->
            EvalCallFunction(node, e, Eval(node.Function, e, Enter(st, node)))
      [] node.type = "ArrayLiteral" /\ pkg = "golemjs" ->
            EvalArrayElements(evalExpressions(node.Elements, e, Enter(st, node)))
      [] node.type = "IndexExpression" /\ pkg = "golemjs" ->
            EvalIndexLeft(node, e, Eval(node.Left, e, Enter(st, node)))
      [] node.type = "HashLiteral" /\ pkg = "golemjs" ->
            evalHashLiteral(node, e, Enter(st, node))
      [] OTHER -> EvalDefault(node, st)

(***************************************************************************)
(* Programs given to Eval.                                                 *)
(***************************************************************************)
ES(x) == ExpressionStatement(x)
Block1(s) == BlockStatement(<<s>>)

\* the statements generated Programs are made of
Pool == <<
    \* let x = 5
    LetStatement("x", IntegerLiteral(5)),
    \* x
    ES(Identifier("x")),
    \* let x = y
    LetStatement("x", Identifier("y")),
    \* if (true) { let x = 2 }
    ES(IfExpression(BooleanLiteral(TRUE), Block1(LetStatement("x", IntegerLiteral(2))), NoNode)),
    \* let f = fn(a) { let x = a; return x }
    LetStatement("f", FunctionLiteral(<<"a">>,
        BlockStatement(<<LetStatement("x", Identifier("a")),
                         ReturnStatement(Identifier("x"))>>))),
    \* f(7)
    ES(CallExpression(Identifier("f"), <<IntegerLiteral(7)>>)),
    \* let len = 7
    LetStatement("len", IntegerLiteral(7)),
    \* len
    ES(Identifier("len")),
    \* return if (true) { return 1 }
    ReturnStatement(IfExpression(BooleanLiteral(TRUE),
        Block1(ReturnStatement(IntegerLiteral(1))), NoNode)),
    \* len("ab")
    ES(CallExpression(Identifier("len"), <<StringLiteral("ab")>>)),
    \* let x = if (true) { let x = 3; y }
    LetStatement("x", IfExpression(BooleanLiteral(TRUE),
        BlockStatement(<<LetStatement("x", IntegerLiteral(3)), ES(Identifier("y"))>>), NoNode))
>>

GeneratedPrograms ==
    {Program([k \in DOMAIN f |-> Pool[f[k]]]) :
        f \in UNION {[1..n -> DOMAIN Pool] : n \in 1..MaxStmts}}

\* let makeAdder = fn(x) { fn(y) { x + y } }; let addFive = makeAdder(5); addFive(3)
AdderLiteral ==
    FunctionLiteral(<<"y">>, Block1(ES(InfixExpression("+", Identifier("x"), Identifier("y")))))
ClosureProgram == Program(<<
    LetStatement("makeAdder", FunctionLiteral(<<"x">>, Block1(ES(AdderLiteral)))),
    LetStatement("addFive", CallExpression(Identifier("makeAdder"), <<IntegerLiteral(5)>>)),
    ES(CallExpression(Identifier("addFive"), <<IntegerLiteral(3)>>)) >>)

\* let factorial = fn(n) { if (n < 1) { return 1 }; return n * factorial(n - 1) };
\* factorial(3)
FactorialRecursion ==
    InfixExpression("*", Identifier("n"),
        CallExpression(Identifier("factorial"),
            <<InfixExpression("-", Identifier("n"), IntegerLiteral(1))>>))
FactorialBody ==
    BlockStatement(<<
        ES(IfExpression(InfixExpression("<", Identifier("n"), IntegerLiteral(1)),
                        Block1(ReturnStatement(IntegerLiteral(1))), NoNode)),
        ReturnStatement(FactorialRecursion) >>)
FactorialProgram == Program(<<
    LetStatement("factorial", FunctionLiteral(<<"n">>, FactorialBody)),
    ES(CallExpression(Identifier("factorial"), <<IntegerLiteral(3)>>)) >>)

\* let g = fn() { return if (true) { return 1 } }; g()
CallReturnProgram == Program(<<
    LetStatement("g", FunctionLiteral(<<>>,
        Block1(ReturnStatement(IfExpression(BooleanLiteral(TRUE),
            Block1(ReturnStatement(IntegerLiteral(1))), NoNode))))),
    ES(CallExpression(Identifier("g"), <<>>)) >>)

\* let h = fn(a) { y }; let x = h(1) + 2; let z = 3
ErrorInCallProgram == Program(<<
    LetStatement("h", FunctionLiteral(<<"a">>, Block1(ES(Identifier("y"))))),
    LetStatement("x", InfixExpression("+",
        CallExpression(Identifier("h"), <<IntegerLiteral(1)>>), IntegerLiteral(2))),
    LetStatement("z", IntegerLiteral(3)) >>)

\* 1 / 0
DivideByZeroProgram == Program(<<ES(InfixExpression("/", IntegerLiteral(1), IntegerLiteral(0)))>>)

NamedPrograms ==
    {ClosureProgram, FactorialProgram, CallReturnProgram, ErrorInCallProgram,
     DivideByZeroProgram}

(***************************************************************************)
(* Programs of one expression statement, built from operand expressions.   *)
(***************************************************************************)
Minus(x) == PrefixExpression("-", x)

\* 9223372036854775807
BigLiteral == [type |-> "IntegerLiteral", Value |-> MaxInt64]

\* n and -n
IntOperands ==
    {IntegerLiteral(n) : n \in 0..MaxOperand} \cup {Minus(IntegerLiteral(n)) : n \in 1..MaxOperand}

\* MaxInt64, -MaxInt64 and MinInt64 (as -MaxInt64 - 1)
BigOperands ==
    {BigLiteral, Minus(BigLiteral), InfixExpression("-", Minus(BigLiteral), IntegerLiteral(1))}

\* if (false) { 1 }, which yields Null
NullOperand == IfExpression(BooleanLiteral(FALSE), Block1(ES(IntegerLiteral(1))), NoNode)
\* fn() { }
FunctionOperand == FunctionLiteral(<<>>, BlockStatement(<<>>))
\* fn() { }(), which yields nil
NilOperand == CallExpression(FunctionOperand, <<>>)
\* [10, 20, ...] with n elements
ArrayOperand(n) == ArrayLiteral([k \in 1..n |-> IntegerLiteral(10 * k)])

\* operands of the other kinds; y is not bound
OtherOperands ==
    {BooleanLiteral(TRUE), BooleanLiteral(FALSE), StringLiteral("a"), StringLiteral("b"),
     StringLiteral(""),
     NullOperand, FunctionOperand, NilOperand, Identifier("len"), Identifier("y"),
     ArrayOperand(0), ArrayOperand(2), HashLiteral(<<>>)}

MixedOperands == OtherOperands \cup {IntegerLiteral(0), IntegerLiteral(1)}

Operands == IntOperands \cup BigOperands \cup OtherOperands

\* % stands for an operator the evaluators do not know
InfixOperators == {"+", "-", "*", "/", "<", ">", "==", "!=", "%"}
PrefixOperators == {"!", "-", "~"}

\* expressions that yield a Boolean or a Null: literals, comparisons, !, an
\* if without alternative, first([]), puts() and [10][1]
SingletonOperands ==
    {BooleanLiteral(TRUE), BooleanLiteral(FALSE),
     InfixExpression("<", IntegerLiteral(1), IntegerLiteral(2)),
     InfixExpression(">", IntegerLiteral(1), IntegerLiteral(2)),
     InfixExpression("==", IntegerLiteral(1), IntegerLiteral(1)),
     InfixExpression("!=", IntegerLiteral(1), IntegerLiteral(1)),
     InfixExpression("==", BooleanLiteral(TRUE), BooleanLiteral(TRUE)),
     PrefixExpression("!", BooleanLiteral(TRUE)),
     PrefixExpression("!", IntegerLiteral(0)),
     PrefixExpression("!", NullOperand),
     NullOperand,
     CallExpression(Identifier("first"), <<ArrayOperand(0)>>),
     CallExpression(Identifier("puts"), <<>>),
     IndexExpression(ArrayOperand(1), IntegerLiteral(1))}

EqualityPrograms ==
    {Program(<<ES(InfixExpression(op, l, r))>>) :
        op \in {"==", "!="}, l \in SingletonOperands, r \in SingletonOperands}

InfixPrograms ==
    {Program(<<ES(InfixExpression(op, l, r))>>) :
        op \in InfixOperators, l \in IntOperands \cup BigOperands, r \in IntOperands \cup BigOperands}
    \cup {Program(<<ES(InfixExpression(op, l, r))>>) :
        op \in InfixOperators, l \in MixedOperands, r \in MixedOperands}
    \cup EqualityPrograms

PrefixPrograms ==
    {Program(<<ES(PrefixExpression(op, x))>>) : op \in PrefixOperators, x \in Operands}

\* the statement that must not run
After == LetStatement("after", IntegerLiteral(2))

\* return 1 inside d nested ifs, each block ending with After; the ifs take
\* the consequence if b and the alternative otherwise
RECURSIVE NestedReturn(_, _)
NestedReturn(d, b) ==
    IF d = 0 THEN <<ReturnStatement(IntegerLiteral(1)), After>>
    ELSE IF b
    THEN <<ES(IfExpression(BooleanLiteral(TRUE), BlockStatement(NestedReturn(d - 1, b)), NoNode)),
           After>>
    ELSE <<ES(IfExpression(BooleanLiteral(FALSE), Block1(After),
                           BlockStatement(NestedReturn(d - 1, b)))),
           After>>

\* let before = 0; ...
ReturnBody(d, b) == <<LetStatement("before", IntegerLiteral(0))>> \o NestedReturn(d, b)

\* the statements as a Program
ReturnTopProgram(d, b) == Program(ReturnBody(d, b))

\* fn() { the statements }(); let z = 3
ReturnCallProgram(d, b) ==
    Program(<<ES(CallExpression(FunctionLiteral(<<>>, BlockStatement(ReturnBody(d, b))), <<>>)),
              LetStatement("z", IntegerLiteral(3))>>)

ReturnPrograms ==
    {ReturnTopProgram(d, b) : d \in 0..MaxDepth, b \in BOOLEAN}
    \cup {ReturnCallProgram(d, b) : d \in 0..MaxDepth, b \in BOOLEAN}

\* the values the condition of an if is bound to
IfValues ==
    {BooleanLiteral(TRUE), BooleanLiteral(FALSE), IntegerLiteral(0), IntegerLiteral(1),
     StringLiteral(""), StringLiteral("a"), NullOperand, FunctionOperand, NilOperand,
     ArrayOperand(0), HashLiteral(<<>>)}

\* { let t = 1; 10 } and { let f = 2; 20 }
Consequence == BlockStatement(<<LetStatement("t", IntegerLiteral(1)), ES(IntegerLiteral(10))>>)
Alternative == BlockStatement(<<LetStatement("f", IntegerLiteral(2)), ES(IntegerLiteral(20))>>)

\* let c = v; if (cond) { let t = 1; 10 } else { let f = 2; 20 }, with or
\* without the else; cond is c, or y that is not bound
IfProgram(v, cond, alt) ==
    Program(<<LetStatement("c", v),
              ES(IfExpression(Identifier(cond), Consequence,
                              IF alt THEN Alternative ELSE NoNode))>>)

IfPrograms == {IfProgram(v, cond, alt) : v \in IfValues, cond \in {"c", "y"}, alt \in BOOLEAN}

\* indexes in and around 0 .. MaxArrayLen - 1, at the ends of int64, and of
\* the other kinds
IndexOperands ==
    {IntegerLiteral(k) : k \in 0..(MaxArrayLen + 1)}
    \cup {Minus(IntegerLiteral(k)) : k \in 1..(MaxArrayLen + 1)}
    \cup {BigLiteral, Minus(BigLiteral), BooleanLiteral(TRUE), StringLiteral("a"), NullOperand,
          FunctionOperand, NilOperand, ArrayOperand(0), Identifier("y")}

\* [10, 20, ...][x], and x indexing something that is no collection
ArrayIndexPrograms ==
    {Program(<<ES(IndexExpression(ArrayOperand(n), x))>>) :
        n \in 0..MaxArrayLen, x \in IndexOperands}
    \cup {Program(<<ES(IndexExpression(l, IntegerLiteral(0)))>>) :
            l \in {IntegerLiteral(1), StringLiteral("a"), NilOperand, Identifier("y")}}

KeyOperands ==
    {StringLiteral("a"), StringLiteral("b"), IntegerLiteral(1), IntegerLiteral(2),
     BooleanLiteral(TRUE), BooleanLiteral(FALSE), NullOperand, FunctionOperand, ArrayOperand(0),
     NilOperand, Identifier("y")}

Pair(k, v) == [Key |-> k, Value |-> v]

\* {k: 1}[x]
HashIndexProgram(k, x) ==
    Program(<<ES(IndexExpression(HashLiteral(<<Pair(k, IntegerLiteral(1))>>), x))>>)

\* {k: 1}[x], {}[x], and {"a": 1, y: 2} in both orders of its pairs
HashPrograms ==
    {HashIndexProgram(k, x) : k \in KeyOperands, x \in KeyOperands}
    \cup {Program(<<ES(IndexExpression(HashLiteral(<<>>), x))>>) : x \in KeyOperands}
    \cup {Program(<<ES(HashLiteral(<<Pair(StringLiteral("a"), IntegerLiteral(1)),
                                     Pair(Identifier("y"), IntegerLiteral(2))>>))>>),
          Program(<<ES(HashLiteral(<<Pair(Identifier("y"), IntegerLiteral(2)),
                                     Pair(StringLiteral("a"), IntegerLiteral(1))>>))>>)}

IndexPrograms == ArrayIndexPrograms \cup HashPrograms

\* p and q are bound, y and z are not
ArgNames == {"p", "q", "y", "z"}

\* the lists of up to MaxArgs of them
ArgLists ==
    UNION {{[k \in DOMAIN f |-> Identifier(f[k])] : f \in [1..n -> ArgNames]} : n \in 0..MaxArgs}

\* fn() { 0 }, which takes any number of arguments, and the built-in puts
Callees == {FunctionLiteral(<<>>, Block1(ES(IntegerLiteral(0)))), Identifier("puts")}

\* let p = 1; let q = 2; x
ArgsProgram(x) ==
    Program(<<LetStatement("p", IntegerLiteral(1)), LetStatement("q", IntegerLiteral(2)), ES(x)>>)

CallPrograms == {ArgsProgram(CallExpression(fn, args)) : fn \in Callees, args \in ArgLists}

ArrayPrograms == {ArgsProgram(ArrayLiteral(args)) : args \in ArgLists}

ExprPrograms ==
    InfixPrograms \cup PrefixPrograms \cup ReturnPrograms \cup IfPrograms \cup IndexPrograms
    \cup CallPrograms \cup ArrayPrograms

\* the arguments given to the built-ins: the array a, 1, "s" and true
BuiltinArgs == {Identifier("a"), IntegerLiteral(1), StringLiteral("s"), BooleanLiteral(TRUE)}

BuiltinArgLists ==
    UNION {[1..n -> BuiltinArgs] : n \in 0..MaxArgs}

\* let a = [10, 20]; f(args)
BuiltinProgram(f, args) ==
    Program(<<LetStatement("a", ArrayOperand(2)), ES(CallExpression(Identifier(f), args))>>)

BuiltinPrograms ==
    {BuiltinProgram(f, args) : f \in BuiltinNames \ {"puts"}, args \in BuiltinArgLists}

\* the parameter lists and argument lists of a call of a user function
ParameterLists == {<<>>, <<"a">>, <<"a", "b">>}
ArityArgLists == UNION {[1..n -> {IntegerLiteral(1)}] : n \in 0..MaxArgs}

\* fn(params) { 5 }(args)
ArityProgram(params, args) ==
    Program(<<ES(CallExpression(FunctionLiteral(params, Block1(ES(IntegerLiteral(5)))), args))>>)

ArityPrograms == {ArityProgram(params, args) : params \in ParameterLists, args \in ArityArgLists}

\* an operator applied to fn() { }(), the absent result of a sub-expression
AbsentOperandPrograms ==
    {Program(<<ES(x)>>) : x \in
        {InfixExpression(op, NilOperand, IntegerLiteral(1)) : op \in {"+", "==", "<"}}
        \cup {InfixExpression(op, IntegerLiteral(1), NilOperand) : op \in {"+", "==", "<"}}
        \cup {PrefixExpression(op, NilOperand) : op \in {"!", "-"}}}

\* the bodies of the function a frame Program calls: let x = 2; let t = 1,
\* let t = a; t, and let x = a; let a = 3; return x
FrameBodies ==
    {<<LetStatement("x", IntegerLiteral(2)), LetStatement("t", IntegerLiteral(1))>>,
     <<LetStatement("t", Identifier("a")), ES(Identifier("t"))>>,
     <<LetStatement("x", Identifier("a")), LetStatement("a", IntegerLiteral(3)),
       ReturnStatement(Identifier("x"))>>}

\* let x = 5; let f = fn(a) { body }; f(7)
FrameProgram(body) ==
    Program(<<LetStatement("x", IntegerLiteral(5)),
              LetStatement("f", FunctionLiteral(<<"a">>, BlockStatement(body))),
              ES(CallExpression(Identifier("f"), <<IntegerLiteral(7)>>))>>)

\* let x = 5; let f = fn(a) { body }; let g = fn(b) { let y = 1; f(b); y }; g(7)
NestedFrameProgram(body) ==
    Program(<<LetStatement("x", IntegerLiteral(5)),
              LetStatement("f", FunctionLiteral(<<"a">>, BlockStatement(body))),
              LetStatement("g", FunctionLiteral(<<"b">>, BlockStatement(<<
                  LetStatement("y", IntegerLiteral(1)),
                  ES(CallExpression(Identifier("f"), <<Identifier("b")>>)),
                  ES(Identifier("y"))>>))),
              ES(CallExpression(Identifier("g"), <<IntegerLiteral(7)>>))>>)

FramePrograms ==
    {FrameProgram(body) : body \in FrameBodies}
    \cup {NestedFrameProgram(body) : body \in FrameBodies}

\* let q = 1; let f = fn() { let q = 2; z }; let z = 3; f()
LaterBindingProgram ==
    Program(<<LetStatement("q", IntegerLiteral(1)),
              LetStatement("f", FunctionLiteral(<<>>, BlockStatement(<<
                  LetStatement("q", IntegerLiteral(2)), ES(Identifier("z"))>>))),
              LetStatement("z", IntegerLiteral(3)),
              ES(CallExpression(Identifier("f"), <<>>))>>)

\* let f = fn() { f }; f()
OwnNameProgram ==
    Program(<<LetStatement("f", FunctionLiteral(<<>>, Block1(ES(Identifier("f"))))),
              ES(CallExpression(Identifier("f"), <<>>))>>)

\* let mk = fn() { fn() { z } }; let f = mk(); let z = 3; f()
MadeLaterProgram ==
    Program(<<LetStatement("mk", FunctionLiteral(<<>>,
                  Block1(ES(FunctionLiteral(<<>>, Block1(ES(Identifier("z")))))))),
              LetStatement("f", CallExpression(Identifier("mk"), <<>>)),
              LetStatement("z", IntegerLiteral(3)),
              ES(CallExpression(Identifier("f"), <<>>))>>)

CapturePrograms == {LaterBindingProgram, OwnNameProgram, MadeLaterProgram}

\* while (true) { let x = 9 }, a statement Eval has no case for
UnhandledNode ==
    [type |-> "WhileStatement", Condition |-> BooleanLiteral(TRUE),
     Body |-> Block1(LetStatement("x", IntegerLiteral(9)))]

\* let x = 5; while (true) { let x = 9 }; x
UnhandledTopProgram ==
    Program(<<LetStatement("x", IntegerLiteral(5)), UnhandledNode, ES(Identifier("x"))>>)
\* let x = 5; if (true) { while (true) { let x = 9 }; x }
UnhandledBlockProgram ==
    Program(<<LetStatement("x", IntegerLiteral(5)),
              ES(IfExpression(BooleanLiteral(TRUE),
                    BlockStatement(<<UnhandledNode, ES(Identifier("x"))>>), NoNode))>>)
\* let x = 5; if (true) { x; while (true) { let x = 9 } }; x
UnhandledLastProgram ==
    Program(<<LetStatement("x", IntegerLiteral(5)),
              ES(IfExpression(BooleanLiteral(TRUE),
                    BlockStatement(<<ES(Identifier("x")), UnhandledNode>>), NoNode)),
              ES(Identifier("x"))>>)
\* let a = [10, ...]; let b = a; f(args), for push(a, 1), push(b, a), rest(a)
\* and rest(b)
AliasCalls ==
    {CallExpression(Identifier("push"), <<Identifier("a"), IntegerLiteral(1)>>),
     CallExpression(Identifier("push"), <<Identifier("b"), Identifier("a")>>),
     CallExpression(Identifier("rest"), <<Identifier("a")>>),
     CallExpression(Identifier("rest"), <<Identifier("b")>>)}
AliasProgram(n, x) ==
    Program(<<LetStatement("a", ArrayOperand(n)), LetStatement("b", Identifier("a")), ES(x)>>)
AliasPrograms == {AliasProgram(n, x) : n \in 0..MaxArrayLen, x \in AliasCalls}

\* if (true) { return 1 }
ReturnOperand ==
    IfExpression(BooleanLiteral(TRUE), Block1(ReturnStatement(IntegerLiteral(1))), NoNode)
\* let x = if (true) { return 1 }; 2, [if (true) { return 1 }, 2] and
\* fn(a) { a }(if (true) { return 1 })
SignalPrograms ==
    {Program(<<LetStatement("x", ReturnOperand), ES(IntegerLiteral(2))>>),
     Program(<<ES(ArrayLiteral(<<ReturnOperand, IntegerLiteral(2)>>))>>),
     Program(<<ES(CallExpression(FunctionLiteral(<<"a">>, Block1(ES(Identifier("a")))),
                                 <<ReturnOperand>>))>>)}

UnhandledPrograms == {UnhandledTopProgram, UnhandledBlockProgram, UnhandledLastProgram}

CallCheckPrograms ==
    BuiltinPrograms \cup ArityPrograms \cup AbsentOperandPrograms \cup FramePrograms
    \cup CapturePrograms \cup UnhandledPrograms \cup AliasPrograms \cup SignalPrograms
    \cup {DivideByZeroProgram, ReturnTopProgram(0, TRUE)}

Programs == GeneratedPrograms \cup NamedPrograms

(***************************************************************************)
(* i := New(); i.Eval(program), one iteration of evalProgram's loop at a   *)
(* time.                                                                   *)
(***************************************************************************)
Init ==
    /\ pkg \in Packages
    /\ builtins = Registry(pkg)
    /\ nalloc = 0
    /\ envs = NewEnvironment(<<>>, NilEnv).h
    /\ env = 1
    /\ pc = "ready"
    /\ idx = 1
    /\ program \in Programs
    /\ result = Nil
    /\ log = <<>>
    /\ call = NoCall
    /\ OthersIdle

Store == [envs |-> envs, nalloc |-> nalloc, log |-> log]

CurStmt == program.Statements[idx]

\* Eval is entered with the Program node
EvalProgramBegin ==
    /\ pc = "ready"
    /\ pc' = "running"
    /\ log' = Enter(Store, program).log
    /\ UNCHANGED <<pkg, builtins, envs, nalloc, env, idx, program, result, call, others>>

Commit(r) ==
    /\ envs' = r.st.envs
    /\ nalloc' = r.st.nalloc
    /\ log' = r.st.log
    /\ UNCHANGED <<pkg, builtins, env, program, call, others>>

\* the statement yields neither a ReturnValue nor an Error: the loop goes on
EvalStatementContinues ==
    /\ pc = "running" /\ idx <= Len(program.Statements)
    /\ LET r == Eval(CurStmt, env, Store)
       IN  /\ ~IsFault(r.val)
           /\ r.val.type \notin {RETURN_VALUE_OBJ, ERROR_OBJ}
           /\ result' = r.val
           /\ idx' = idx + 1
           /\ pc' = "running"
           /\ Commit(r)

\* case *ReturnValue: return result.Value
EvalStatementReturns ==
    /\ pc = "running" /\ idx <= Len(program.Statements)
    /\ LET r == Eval(CurStmt, env, Store)
       IN  /\ ~IsFault(r.val)
           /\ r.val.type = RETURN_VALUE_OBJ
           /\ result' = r.val.Value
           /\ idx' = idx
           /\ pc' = "returned"
           /\ Commit(r)

\* case *Error: return result
EvalStatementErrors ==
    /\ pc = "running" /\ idx <= Len(program.Statements)
    /\ LET r == Eval(CurStmt, env, Store)
       IN  /\ ~IsFault(r.val)
           /\ r.val.type = ERROR_OBJ
           /\ result' = r.val
           /\ idx' = idx
           /\ pc' = "returned"
           /\ Commit(r)

\* the statement panics: Eval does not return
EvalStatementPanics ==
    /\ pc = "running" /\ idx <= Len(program.Statements)
    /\ LET r == Eval(CurStmt, env, Store)
       IN  /\ IsFault(r.val)
           /\ result' = Fault
           /\ idx' = idx
           /\ pc' = "panicked"
           /\ Commit(r)

\* the loop is over: return result
EvalProgramEnd ==
    /\ pc = "running" /\ idx > Len(program.Statements)
    /\ pc' = "returned"
    /\ UNCHANGED <<pkg, builtins, envs, nalloc, env, idx, program, result, log, call, others>>

Next ==
    \/ EvalProgramBegin
    \/ EvalStatementContinues
    \/ EvalStatementReturns
    \/ EvalStatementErrors
    \/ EvalStatementPanics
    \/ EvalProgramEnd

Spec == Init /\ [][Next]_vars

\* i := New(); i.Eval(program) for the Programs of one expression
InitExpr ==
    /\ pkg \in Packages
    /\ builtins = Registry(pkg)
    /\ nalloc = 0
    /\ envs = NewEnvironment(<<>>, NilEnv).h
    /\ env = 1
    /\ pc = "ready"
    /\ idx = 1
    /\ program \in ExprPrograms
    /\ result = Nil
    /\ log = <<>>
    /\ call = NoCall
    /\ OthersIdle

SpecExpr == InitExpr /\ [][Next]_vars

(***************************************************************************)
(* A second Interpreter from New() evaluates the same AST after the first  *)
(* one returned.                                                           *)
(***************************************************************************)
\* strings.Join(elems, ", ")
RECURSIVE Join(_)
Join(elems) ==
    IF Len(elems) = 0 THEN ""
    ELSE IF Len(elems) = 1 THEN elems[1]
    ELSE elems[1] \o ", " \o Join(Tail(elems))

\* obj.Inspect(); a Function's rendering is given by its parameters and by
\* its Body node, of which Body.String() is a function
RECURSIVE Inspect(_)
Inspect(obj) ==
    CASE obj.type = NULL_OBJ -> "null"
      [] obj.type = ERROR_OBJ -> "ERROR: " \o obj.Message
      [] obj.type = INTEGER_OBJ ->
            IF IsNeg64(obj.Value) THEN "-" \o Itoa(ToInt(Neg64(obj.Value)))
            ELSE Itoa(ToInt(obj.Value))
      [] obj.type = STRING_OBJ -> obj.Value
      [] obj.type = BOOLEAN_OBJ -> IF obj.Value THEN "true" ELSE "false"
      [] obj.type = BUILTIN_OBJ -> "builtin function"
      [] obj.type = ARRAY_OBJ ->
            "[" \o Join([k \in DOMAIN obj.Elements |-> Inspect(obj.Elements[k])]) \o "]"
      [] obj.type = FUNCTION_OBJ -> <<"fn(", obj.Parameters, ") {\n", obj.Body, "\n}">>

\* the orders in which a later run may range over the Pairs of a HashLiteral
Orders(pairs) ==
    {[k \in DOMAIN pairs |-> pairs[f[k]]] :
        f \in {g \in [DOMAIN pairs -> DOMAIN pairs] : \A i, j \in DOMAIN pairs : g[i] = g[j] => i = j}}

\* the same AST as a later run ranges over it: the Pairs map of a HashLiteral
\* that is the expression of a statement is ranged over in any order
SameAST(prog) ==
    LET stmts == prog.Statements
        isHash(k) == stmts[k].type = "ExpressionStatement" /\ stmts[k].Expression.type = "HashLiteral"
        choices(k) == IF isHash(k)
                      THEN {ES(HashLiteral(ps)) : ps \in Orders(stmts[k].Expression.Pairs)}
                      ELSE {stmts[k]}
    IN  {Program(ss) : ss \in {t \in [DOMAIN stmts -> UNION {choices(k) : k \in DOMAIN stmts}] :
                                    \A k \in DOMAIN stmts : t[k] \in choices(k)}}

\* {k1: 1, k2: 2}
TwoPairs(k1, k2) ==
    Program(<<ES(HashLiteral(<<Pair(k1, IntegerLiteral(1)), Pair(k2, IntegerLiteral(2))>>))>>)

TwiceKeys == {Identifier("y"), Identifier("z"), StringLiteral("a"), IntegerLiteral(1)}

TwicePrograms ==
    {TwoPairs(k1, k2) : k1, k2 \in TwiceKeys}
    \cup {BuiltinProgram(f, <<x>>) : f \in BuiltinNames \ {"puts"}, x \in BuiltinArgs}
    \cup NamedPrograms \cup {ReturnTopProgram(0, TRUE)}

InitTwice ==
    /\ pkg \in Packages
    /\ builtins = Registry(pkg)
    /\ nalloc = 0
    /\ envs = NewEnvironment(<<>>, NilEnv).h
    /\ env = 1
    /\ pc = "ready"
    /\ idx = 1
    /\ program \in TwicePrograms
    /\ result = Nil
    /\ log = <<>>
    /\ call = NoCall
    /\ OthersIdle

\* the first run returned: i2 := New(); i2.Eval(program). The registry, the
\* singletons and the AST are the package's and the caller's: they are what
\* the first run left
NewRun ==
    /\ pc = "returned" /\ prev = NoRun
    /\ prev' = [run |-> 1, kind |-> result.type,
                 inspect |-> IF result = Nil THEN "" ELSE Inspect(result)]
    /\ envs' = NewEnvironment(<<>>, NilEnv).h
    /\ env' = 1
    /\ pc' = "ready"
    /\ idx' = 1
    /\ program' \in SameAST(program)
    /\ result' = Nil
    /\ log' = <<>>
    /\ UNCHANGED <<pkg, builtins, nalloc, call, lexer, tokens, parser, nodes, astcheck>>

NextTwice ==
    \/ Next
    \/ NewRun

SpecTwice == InitTwice /\ [][NextTwice]_vars

\* i := New(); i.Eval(program) for the Programs that call built-ins and functions
InitCall ==
    /\ pkg \in Packages
    /\ builtins = Registry(pkg)
    /\ nalloc = 0
    /\ envs = NewEnvironment(<<>>, NilEnv).h
    /\ env = 1
    /\ pc = "ready"
    /\ idx = 1
    /\ program \in CallCheckPrograms
    /\ result = Nil
    /\ log = <<>>
    /\ call = NoCall
    /\ OthersIdle

SpecCall == InitCall /\ [][Next]_vars

(***************************************************************************)
(* The Environment API driven directly: NewEnvironment / Set / Get.        *)
(***************************************************************************)
EnvNames == {"x", "len"}
EnvVals == {Integer(1), Integer(2)}

InitEnv ==
    /\ pkg \in Packages
    /\ builtins = EmptyStore
    /\ nalloc = 0
    /\ envs = NewEnvironment(<<>>, NilEnv).h
    /\ env = 1
    /\ pc = "api"
    /\ idx = 1
    /\ program = Program(<<>>)
    /\ result = Nil
    /\ log = <<>>
    /\ call = NoCall
    /\ OthersIdle

EnvNew(outer) ==
    /\ Len(envs) < MaxEnvs
    /\ LET r == IF pkg = "golemjs" THEN NewEnvironment(envs, outer)
                ELSE NewEnclosedEnvironment(envs, outer)
       IN  /\ envs' = r.h
           /\ call' = [op |-> "New", outer |-> outer, ret |-> r.env]
    /\ UNCHANGED <<pkg, builtins, nalloc, env, pc, idx, program, result, log, others>>

EnvSet(e, name, val) ==
    /\ LET r == Set(envs, e, name, val)
       IN  /\ envs' = r.h
           /\ call' = [op |-> "Set", env |-> e, name |-> name, val |-> val, ret |-> r.ret]
    /\ UNCHANGED <<pkg, builtins, nalloc, env, pc, idx, program, result, log, others>>

EnvGet(e, name) ==
    /\ LET r == Get(envs, e, name)
       IN  call' = [op |-> "Get", env |-> e, name |-> name, obj |-> r.obj, ok |-> r.ok]
    /\ UNCHANGED <<pkg, builtins, nalloc, envs, env, pc, idx, program, result, log, others>>

NextEnv ==
    \/ \E outer \in DOMAIN envs : EnvNew(outer)
    \/ \E e \in DOMAIN envs, name \in EnvNames, val \in EnvVals : EnvSet(e, name, val)
    \/ \E e \in DOMAIN envs, name \in EnvNames : EnvGet(e, name)

SpecEnv == InitEnv /\ [][NextEnv]_vars

(***************************************************************************)
(* Properties of evaluation.                                               *)
(***************************************************************************)
Returned == pc = "returned"

\* evalProgram is about to evaluate a statement
AtStatement == pc = "running" /\ idx <= Len(program.Statements)

\* what evalProgram makes of a statement's value
ProgramResult(v) == IF v.type = RETURN_VALUE_OBJ THEN v.Value ELSE v

\* C1: a user Function's body is evaluated in a child of the Environment
\* captured by the function literal, with the parameters bound to the
\* arguments, so the makeAdder program yields Integer 8.
C1_ClosureYieldsEight ==
    (Returned /\ program = ClosureProgram) => result = Integer(8)

\* C2: a let-bound function that calls itself with a decrementing argument
\* and a base-case if returns the accumulated Integer (here factorial(3),
\* Integer 6): every activation sees the parameter it was called with.
C2_FactorialYieldsProduct ==
    (Returned /\ program = FactorialProgram) => result = Integer(6)

\* C3: neither the result of Eval on a Program nor the result of a call of a
\* user Function is ever a ReturnValue object.
C3_NoReturnValueLeaks ==
    /\ Returned => result.type # RETURN_VALUE_OBJ
    /\ \A i \in DOMAIN log : log[i].ev = "return" => log[i].val # RETURN_VALUE_OBJ

\* C4: once a sub-expression or statement yields an Error, nothing more is
\* evaluated, bound, applied or printed (the only events that follow are the
\* returns of the calls being unwound), and Eval on the Program returns that
\* same Error.
C4_ErrorAbortsEvaluation ==
    \A i \in DOMAIN log :
        log[i].ev = "error" =>
            /\ \A j \in DOMAIN log : j > i => log[j].ev = "return"
            /\ Returned
            /\ result = Error(log[i].msg)

\* an Error raised inside a function body ended a Program that has later statements
C4_Witness ==
    /\ Returned
    /\ result.type = ERROR_OBJ
    /\ idx < Len(program.Statements)
    /\ \E i, j \in DOMAIN log : i < j /\ log[i].ev = "apply" /\ log[j].ev = "error"

\* C7: a BlockStatement is evaluated in a child Environment of its own: a let
\* executed in the block of an if adds no binding to the enclosing Environment
\* and overwrites none.
C7_BlockHasOwnScope ==
    [][(/\ AtStatement
        /\ program.Statements[idx].type = "ExpressionStatement"
        /\ program.Statements[idx].Expression.type = "IfExpression")
       => envs'[env].store = envs[env].store]_vars

\* C8: a let declaration whose value is a non-Error Object v binds the name
\* to v in the current Environment and yields v as its own result.
C8_LetYieldsValue ==
    [][(/\ AtStatement
        /\ program.Statements[idx].type = "LetStatement"
        /\ pc' = "running")
       => /\ program.Statements[idx].Name \in DOMAIN envs'[env].store
          /\ result' = envs'[env].store[program.Statements[idx].Name]]_vars

\* C9: when the value expression of a let declaration evaluates to an Error,
\* the declaration returns that Error and the Environment is unchanged.
C9_LetErrorKeepsEnvironment ==
    [][(/\ AtStatement
        /\ program.Statements[idx].type = "LetStatement"
        /\ pc' = "returned"
        /\ result'.type = ERROR_OBJ)
       => envs'[env].store = envs[env].store]_vars

(***************************************************************************)
(* Environment properties.                                                 *)
(***************************************************************************)
\* the Environments on the outer chain of e, nearest first
RECURSIVE Chain(_, _)
Chain(h, e) == IF e = NilEnv THEN <<>> ELSE <<e>> \o Chain(h, h[e].outer)

Binders(h, e, name) == {i \in DOMAIN Chain(h, e) : name \in DOMAIN h[Chain(h, e)[i]].store}

Nearest(h, e, name) ==
    LET b == Binders(h, e, name)
        i == CHOOSE i \in b : \A j \in b : i <= j
    IN  Chain(h, e)[i]

\* C5: Environment.Set(name, v) changes only the receiver's own binding of
\* name: every other binding of the receiver and every binding of every other
\* Environment (an outer binding of the same name included) is unchanged, no
\* Environment is created or re-linked, and Set returns v.
C5_SetFrame ==
    [][call'.op = "Set" =>
        /\ Len(envs') = Len(envs)
        /\ \A e \in DOMAIN envs :
              /\ envs'[e].outer = envs[e].outer
              /\ \A n \in DOMAIN envs[e].store \cup DOMAIN envs'[e].store :
                    (e # call'.env \/ n # call'.name) =>
                        /\ n \in DOMAIN envs[e].store
                        /\ n \in DOMAIN envs'[e].store
                        /\ envs'[e].store[n] = envs[e].store[n]
        /\ call'.name \in DOMAIN envs'[call'.env].store
        /\ envs'[call'.env].store[call'.name] = call'.val
        /\ call'.ret = call'.val]_vars

\* a Set has just written a name that an outer Environment binds to another value
C5_Witness ==
    /\ call.op = "Set"
    /\ envs[call.env].outer # NilEnv
    /\ call.name \in DOMAIN envs[envs[call.env].outer].store
    /\ envs[envs[call.env].outer].store[call.name] # call.val

\* C6: Get(name) returns (v, true) with v the binding of name in the nearest
\* Environment of the outer chain that binds it, and found = false exactly
\* when no Environment of the chain binds it.
C6_GetNearest ==
    \A e \in DOMAIN envs : \A name \in EnvNames :
        LET r == Get(envs, e, name)
        IN  /\ r.ok <=> Binders(envs, e, name) # {}
            /\ r.ok => r.obj = envs[Nearest(envs, e, name)].store[name]
            /\ (call.op = "Get" /\ call.env = e /\ call.name = name) =>
                  (call.ok = r.ok /\ call.obj = r.obj)

\* a Get on a child whose binding hides a different binding of its outer
C6_Witness ==
    /\ call.op = "Get"
    /\ call.ok
    /\ call.name \in DOMAIN envs[call.env].store
    /\ envs[call.env].outer # NilEnv
    /\ call.name \in DOMAIN envs[envs[call.env].outer].store
    /\ envs[envs[call.env].outer].store[call.name] # call.obj
    /\ call.obj = envs[call.env].store[call.name]

\* C10: an identifier resolves to its nearest binding in the Environment
\* chain; if there is none, to the built-in of that name; if there is none
\* either, to the Error "identifier not found: {name}".  A bound name that
\* is also a built-in name resolves to the bound value, and the registry
\* never changes.
C10_IdentifierResolution ==
    /\ [](builtins = Registry(pkg))
    /\ [][(/\ AtStatement
           /\ program.Statements[idx].type = "ExpressionStatement"
           /\ program.Statements[idx].Expression.type = "Identifier")
          => LET name == program.Statements[idx].Expression.Value
             IN  result' =
                    IF Binders(envs, env, name) # {}
                    THEN ProgramResult(envs[Nearest(envs, env, name)].store[name])
                    ELSE IF name \in DOMAIN Registry(pkg) THEN Builtin(name)
                    ELSE Error("identifier not found: " \o name)]_vars

\* the identifier len was just resolved to its binding although the registry
\* has a built-in len
C10_Witness ==
    /\ pc = "running" /\ idx > 1
    /\ program.Statements[idx - 1] = ES(Identifier("len"))
    /\ "len" \in DOMAIN builtins
    /\ "len" \in DOMAIN envs[env].store
    /\ result = Integer(7)

(***************************************************************************)
(* Properties of the Programs of one expression.                           *)
(***************************************************************************)
\* C11: a return statement halts its block and every enclosing block of the
\* function body (or of the Program): the statements before it ran in order,
\* no statement after it in any of these blocks is evaluated, and the call
\* (the Program) yields the returned value.
C11_ReturnHaltsBlocks ==
    \A d \in 0..MaxDepth, b \in BOOLEAN :
        /\ program \in {ReturnTopProgram(d, b), ReturnCallProgram(d, b)} =>
              /\ \A i \in DOMAIN log : log[i].ev \in {"eval", "set"} => log[i].name # "after"
              /\ \A i \in DOMAIN log :
                    (log[i].ev = "eval" /\ log[i].node = "ReturnStatement") =>
                        \E j \in 1..i : log[j].ev = "set" /\ log[j].name = "before"
        /\ (program = ReturnTopProgram(d, b) /\ pc \notin {"ready", "running"}) =>
              (Returned /\ idx = 2 /\ result = Integer(1))
        /\ (program = ReturnCallProgram(d, b) /\ pc = "running" /\ idx = 2) =>
              result = Integer(1)
        /\ (program = ReturnCallProgram(d, b) /\ pc \notin {"ready", "running"}) =>
              (Returned /\ idx = 3)

\* a call whose body returns from inside nested ifs has yielded the returned
\* value, and the statement after the call is next
C11_Witness ==
    /\ \E b \in BOOLEAN : program = ReturnCallProgram(MaxDepth, b)
    /\ pc = "running" /\ idx = 2
    /\ result = Integer(1)
    /\ \E i \in DOMAIN log : log[i].ev = "eval" /\ log[i].node = "ReturnStatement"

(***************************************************************************)
(* What the one expression statement of a Program was applied to: the last *)
(* evalInfixExpression / evalPrefixExpression / evalIndexExpression call   *)
(* of the log is the one of the statement's own expression.                *)
(***************************************************************************)
\* the statement of a one-statement Program has been evaluated
StatementDone == pc \in {"returned", "panicked"} \/ (pc = "running" /\ idx > 1)

Events(ev) == {i \in DOMAIN log : log[i].ev = ev}

LastIndex(ev) == CHOOSE i \in Events(ev) : \A j \in Events(ev) : j <= i

Last(ev) == log[LastIndex(ev)]

\* the node whose case of Eval makes the call
NodeOf(ev) ==
    CASE ev = "infix" -> "InfixExpression"
      [] ev = "prefix" -> "PrefixExpression"
      [] ev = "index" -> "IndexExpression"

Entered(node) == {i \in DOMAIN log : log[i].ev = "eval" /\ log[i].node = node}

\* every node of the kind that Eval entered went on to its call, so the
\* last call is the one for the statement's expression and yields its value
Applied(ev) ==
    /\ StatementDone
    /\ Events(ev) # {}
    /\ Cardinality(Events(ev)) = Cardinality(Entered(NodeOf(ev)))

InfixApplied == program \in InfixPrograms /\ Applied("infix")

IsErrorWith(obj, msg) == obj.type = ERROR_OBJ /\ obj.Message = msg

\* both operands are objects, of different kinds
KindsDiffer(e) == e.left.type # "nil" /\ e.right.type # "nil" /\ e.left.type # e.right.type

MismatchMessage(e) == "type mismatch: " \o e.left.type \o " " \o e.op \o " " \o e.right.type

\* C12 as stated: every infix operator, == and != included, applied to operands
\* of different kinds (but for + with a String) yields the type mismatch Error
C12_MismatchForEveryOperator ==
    InfixApplied =>
        LET e == Last("infix")
        IN  (KindsDiffer(e) /\ ~(e.op = "+" /\ STRING_OBJ \in {e.left.type, e.right.type})) =>
                IsErrorWith(result, MismatchMessage(e))

\* C12 amended: every infix operator other than == and != applied to operands
\* of different kinds yields the type mismatch Error (+ with one String
\* included); == on operands of different kinds yields FALSE and != TRUE
C12_MismatchButForEquality ==
    InfixApplied =>
        LET e == Last("infix")
        IN  KindsDiffer(e) =>
                CASE e.op = "==" -> result = FALSE_
                  [] e.op = "!=" -> result = TRUE_
                  [] OTHER -> IsErrorWith(result, MismatchMessage(e))

C12_Witness ==
    /\ InfixApplied
    /\ Last("infix").op = "<"
    /\ Last("infix").left.type = INTEGER_OBJ
    /\ Last("infix").right.type = BOOLEAN_OBJ
    /\ IsErrorWith(result, "type mismatch: INTEGER < BOOLEAN")
    /\ pc = "returned"

\* C13 (golemjs): + on two Strings yields their concatenation, + with exactly
\* one String operand yields the type mismatch Error, + on two Integers their
\* sum
C13_PlusOnStrings ==
    (pkg = "golemjs" /\ InfixApplied /\ Last("infix").op = "+") =>
        LET e == Last("infix")
            strings == {x \in {"left", "right"} : e[x].type = STRING_OBJ}
        IN  /\ strings = {"left", "right"} =>
                    (result.type = STRING_OBJ /\ result.Value = e.left.Value \o e.right.Value)
            /\ (Cardinality(strings) = 1 /\ e.left.type # "nil" /\ e.right.type # "nil") =>
                    IsErrorWith(result, MismatchMessage(e))
            /\ \A a, b \in 0..MaxOperand :
                    (/\ e.left.type = INTEGER_OBJ /\ e.left.Value = Int64(a)
                     /\ e.right.type = INTEGER_OBJ /\ e.right.Value = Int64(b)) =>
                        result = Integer(a + b)

C13_Witness ==
    /\ pkg = "golemjs" /\ InfixApplied
    /\ program = Program(<<ES(InfixExpression("+", StringLiteral("a"), StringLiteral("b")))>>)
    /\ Last("infix").left.Value = "a" /\ Last("infix").right.Value = "b"
    /\ result.type = STRING_OBJ /\ result.Value = "ab"

(***************************************************************************)
(* Integer arithmetic.  The numbers of small magnitude are compared with   *)
(* the arithmetic of the integers; the int64 at and around the ends of the *)
(* range are written out as their 8 bytes, least significant first.        *)
(***************************************************************************)
SmallInts == (0 - MaxOperand)..MaxOperand

IsSmall(v) == \E n \in SmallInts : Int64(n) = v

SmallValue(v) == CHOOSE n \in SmallInts : Int64(n) = v

Abs(n) == IF n < 0 THEN 0 - n ELSE n

\* the quotient truncated toward zero
TruncDiv(a, b) == IF (a < 0) # (b < 0) THEN 0 - (Abs(a) \div Abs(b)) ELSE Abs(a) \div Abs(b)

Top == <<255, 255, 255, 255, 255, 255, 255, 127>>
Bottom == <<0, 0, 0, 0, 0, 0, 0, 128>>
\* -(2^63 - 1)
NegTop == <<1, 0, 0, 0, 0, 0, 0, 128>>
\* -1, -2, 1, 2, 0
M1 == <<255, 255, 255, 255, 255, 255, 255, 255>>
M2 == <<254, 255, 255, 255, 255, 255, 255, 255>>
P1 == <<1, 0, 0, 0, 0, 0, 0, 0>>
P2 == <<2, 0, 0, 0, 0, 0, 0, 0>>
Zero == <<0, 0, 0, 0, 0, 0, 0, 0>>

\* left, operator, right and the int64 the operation yields
WrapCases ==
    {<<Top, "+", P1, Bottom>>, <<Top, "+", Top, M2>>, <<Bottom, "+", Bottom, Zero>>,
     <<Bottom, "+", M1, Top>>, <<Bottom, "-", P1, Top>>, <<Top, "-", M1, Bottom>>,
     <<Top, "-", Bottom, M1>>, <<Zero, "-", Bottom, Bottom>>, <<NegTop, "-", P2, Top>>,
     <<Top, "*", P2, M2>>, <<Top, "*", Top, P1>>, <<Bottom, "*", M1, Bottom>>,
     <<Bottom, "*", P2, Zero>>, <<Top, "*", Bottom, Bottom>>, <<NegTop, "*", M1, Top>>,
     <<Bottom, "/", M1, Bottom>>, <<Top, "/", M1, NegTop>>, <<Top, "/", Top, P1>>,
     <<Bottom, "/", Top, M1>>, <<Top, "/", Bottom, Zero>>, <<Bottom, "/", Bottom, P1>>,
     \* 2^62 - 1, -2^62 and -(2^62 - 1)
     <<Top, "/", P2, <<255, 255, 255, 255, 255, 255, 255, 63>>>>,
     <<Bottom, "/", P2, <<0, 0, 0, 0, 0, 0, 0, 192>>>>,
     <<NegTop, "/", P2, <<1, 0, 0, 0, 0, 0, 0, 192>>>>,
     <<P1, "/", Top, Zero>>, <<M1, "/", Bottom, Zero>>}

\* left, right and whether left < right
OrderCases ==
    {<<Bottom, Top, TRUE>>, <<Top, Bottom, FALSE>>, <<Bottom, NegTop, TRUE>>,
     <<NegTop, Bottom, FALSE>>, <<Top, Top, FALSE>>, <<Bottom, Bottom, FALSE>>,
     <<M1, Top, TRUE>>, <<Top, M1, FALSE>>, <<Bottom, Zero, TRUE>>, <<Zero, Bottom, FALSE>>,
     <<NegTop, M1, TRUE>>, <<P1, Top, TRUE>>, <<Top, P1, FALSE>>, <<Bottom, M1, TRUE>>}

IntegersApplied ==
    /\ InfixApplied
    /\ Last("infix").left.type = INTEGER_OBJ
    /\ Last("infix").right.type = INTEGER_OBJ

Bool(b) == IF b THEN TRUE_ ELSE FALSE_

\* C14: on two Integers +, -, * yield sum, difference and product wrapping as
\* 64-bit two's complement, / by a non-zero divisor the quotient truncated
\* toward zero, <, >, ==, != the Boolean of the comparison, and any other
\* operator the unknown operator Error
C14_IntegerArithmetic ==
    IntegersApplied =>
        LET e == Last("infix")
            l == e.left.Value
            r == e.right.Value
        IN  /\ (IsSmall(l) /\ IsSmall(r)) =>
                LET a == SmallValue(l)
                    b == SmallValue(r)
                IN  CASE e.op = "+" -> result = Integer(a + b)
                      [] e.op = "-" -> result = Integer(a - b)
                      [] e.op = "*" -> result = Integer(a * b)
                      [] e.op = "/" -> b # 0 => result = Integer(TruncDiv(a, b))
                      [] e.op = "<" -> result = Bool(a < b)
                      [] e.op = ">" -> result = Bool(a > b)
                      [] e.op = "==" -> result = Bool(a = b)
                      [] e.op = "!=" -> result = Bool(a # b)
                      [] OTHER -> TRUE
            /\ \A c \in WrapCases :
                    (l = c[1] /\ e.op = c[2] /\ r = c[3]) => result = IntegerObject(c[4])
            /\ \A c \in OrderCases :
                    /\ (l = c[1] /\ e.op = "<" /\ r = c[2]) => result = Bool(c[3])
                    /\ (r = c[1] /\ e.op = ">" /\ l = c[2]) => result = Bool(c[3])
                    /\ (l = c[1] /\ e.op = "==" /\ r = c[2]) => result = Bool(c[1] = c[2])
                    /\ (l = c[1] /\ e.op = "!=" /\ r = c[2]) => result = Bool(c[1] # c[2])
            /\ e.op \notin {"+", "-", "*", "/", "<", ">", "==", "!="} =>
                    IsErrorWith(result, "unknown operator: INTEGER " \o e.op \o " INTEGER")

\* -7 / 2 is -3
C14_Witness ==
    /\ IntegersApplied
    /\ Last("infix").op = "/"
    /\ Last("infix").left.Value = Int64(0 - 7)
    /\ Last("infix").right.Value = Int64(2)
    /\ result = Integer(0 - 3)
    /\ pc = "running" /\ idx = 2

(***************************************************************************)
(* The shared Boolean and Null instances.                                  *)
(***************************************************************************)
\* a Boolean is TRUE or FALSE itself and a Null is NULL itself
IsShared(obj) ==
    CASE obj.type = BOOLEAN_OBJ -> obj.addr = (IF obj.Value THEN "TRUE" ELSE "FALSE")
      [] obj.type = NULL_OBJ -> obj.addr = "NULL"
      [] OTHER -> TRUE

\* the objects a log entry holds
Held(entry) ==
    CASE entry.ev = "infix" -> {entry.left, entry.right}
      [] entry.ev = "prefix" -> {entry.right}
      [] entry.ev = "index" -> {entry.left, entry.index}
      [] entry.ev = "apply" -> {entry.args[k] : k \in DOMAIN entry.args}
      [] OTHER -> {}

\* two Booleans or Nulls denote the same value
SameValue(a, b) ==
    /\ a.type = b.type
    /\ a.type = BOOLEAN_OBJ => a.Value = b.Value

\* C15: every Boolean evaluation produces is TRUE or FALSE and every Null is
\* NULL, so == on Boolean and Null operands yields true exactly when they
\* denote the same value, and != the opposite
C15_SharedInstances ==
    /\ IsShared(result)
    /\ \A i \in DOMAIN log : \A obj \in Held(log[i]) : IsShared(obj)
    /\ \A e \in DOMAIN envs : \A n \in DOMAIN envs[e].store : IsShared(envs[e].store[n])
    /\ (program \in EqualityPrograms /\ Applied("infix")) =>
            LET e == Last("infix")
            IN  ({e.left.type, e.right.type} \subseteq {BOOLEAN_OBJ, NULL_OBJ}) =>
                    CASE e.op = "==" -> result = Bool(SameValue(e.left, e.right))
                      [] e.op = "!=" -> result = Bool(~SameValue(e.left, e.right))

\* (1 < 2) == !(if (false) { 1 }): a comparison's TRUE is the TRUE of !
C15_Witness ==
    /\ program = Program(<<ES(InfixExpression("==",
                    InfixExpression("<", IntegerLiteral(1), IntegerLiteral(2)),
                    PrefixExpression("!", NullOperand)))>>)
    /\ Applied("infix")
    /\ Last("infix").left.type = BOOLEAN_OBJ /\ Last("infix").left.addr = "TRUE"
    /\ Last("infix").right.type = BOOLEAN_OBJ /\ Last("infix").right.addr = "TRUE"
    /\ result = TRUE_

(***************************************************************************)
(* Prefix ! and truthiness.                                                *)
(***************************************************************************)
PrefixApplied == program \in PrefixPrograms /\ Applied("prefix")

\* the Boolean false or Null
Falsy(obj) == (obj.type = BOOLEAN_OBJ /\ ~obj.Value) \/ obj.type = NULL_OBJ

\* C16: ! yields TRUE exactly for FALSE and NULL and FALSE for every other
\* operand, and isTruthy agrees with it
C16_BangAndTruthiness ==
    (PrefixApplied /\ Last("prefix").op = "!") =>
        LET right == Last("prefix").right
        IN  /\ result = Bool(Falsy(right))
            /\ isTruthy(right) <=> result = FALSE_

\* !0 is FALSE
C16_Witness ==
    /\ PrefixApplied
    /\ Last("prefix").op = "!"
    /\ Last("prefix").right.type = INTEGER_OBJ
    /\ Last("prefix").right.Value = Int64(0)
    /\ result = FALSE_
    /\ isTruthy(Integer(0))

(***************************************************************************)
(* If expressions.                                                         *)
(***************************************************************************)
IsInteger(obj, n) == obj.type = INTEGER_OBJ /\ obj.Value = Int64(n)

IsNull(obj) == obj.type = NULL_OBJ /\ obj.addr = "NULL"

\* where the log stands when c has been bound: the if comes after it
LetDone == CHOOSE i \in Events("set") : log[i].name = "c"

\* how many times, after that, Eval was entered with a node of the type and name
Evals(node, name) ==
    Cardinality({i \in Entered(node) : i > LetDone /\ log[i].name = name})

\* how many times, after that, name was bound
Sets(name) == Cardinality({i \in Events("set") : i > LetDone /\ log[i].name = name})

\* both statements of an IfProgram have been evaluated
IfDone ==
    /\ program \in IfPrograms
    /\ pc \in {"returned", "panicked"} \/ (pc = "running" /\ idx > 2)

\* C17: the condition is evaluated once; a truthy condition evaluates only
\* the consequence, a falsy one only the alternative if there is one and
\* yields NULL otherwise; an Error in the condition is returned and neither
\* branch is evaluated
C17_IfExpression ==
    IfDone =>
        LET ie == program.Statements[2].Expression
            cond == ie.Condition.Value
            alt == ie.Alternative # NoNode
            falsy == Falsy(envs[1].store["c"])
        IN  /\ Evals("Identifier", cond) = 1
            /\ Evals("IfExpression", "") = 1
            /\ cond = "y" =>
                    /\ IsErrorWith(result, "identifier not found: y")
                    /\ Evals("BlockStatement", "") = 0 /\ Sets("t") = 0 /\ Sets("f") = 0
            /\ (cond = "c" /\ ~falsy) =>
                    /\ IsInteger(result, 10)
                    /\ Evals("BlockStatement", "") = 1 /\ Sets("t") = 1 /\ Sets("f") = 0
            /\ (cond = "c" /\ falsy /\ alt) =>
                    /\ IsInteger(result, 20)
                    /\ Evals("BlockStatement", "") = 1 /\ Sets("t") = 0 /\ Sets("f") = 1
            /\ (cond = "c" /\ falsy /\ ~alt) =>
                    /\ IsNull(result)
                    /\ Evals("BlockStatement", "") = 0 /\ Sets("t") = 0 /\ Sets("f") = 0

\* let c = false; if (c) { let t = 1; 10 } yields NULL
C17_Witness ==
    /\ program = IfProgram(BooleanLiteral(FALSE), "c", FALSE)
    /\ IfDone
    /\ pc = "running" /\ idx = 3
    /\ IsNull(result)
    /\ Evals("Identifier", "c") = 1

(***************************************************************************)
(* Index expressions.                                                      *)
(***************************************************************************)
IndexApplied == program \in IndexPrograms /\ Applied("index")

\* the index is an Integer i with 0 <= i <= len - 1
InRange(index, len) ==
    /\ index.type = INTEGER_OBJ
    /\ IsSmall(index.Value)
    /\ 0 <= SmallValue(index.Value) /\ SmallValue(index.Value) <= len - 1

\* C18: indexing an Array yields the element at i for an Integer index i in
\* 0 .. len-1 and NULL in every other case, never an Error and never a fault
C18_ArrayIndexTotal ==
    (IndexApplied /\ Last("index").left.type = ARRAY_OBJ) =>
        LET e == Last("index")
            len == Len(e.left.Elements)
        IN  /\ pc # "panicked"
            /\ result.type # ERROR_OBJ
            /\ IF InRange(e.index, len)
               THEN IsInteger(result, 10 * (SmallValue(e.index.Value) + 1))
               ELSE IsNull(result)

\* the literals of the kinds the claim takes as keys
HashableKeys ==
    {StringLiteral("a"), StringLiteral("b"), IntegerLiteral(1), IntegerLiteral(2),
     BooleanLiteral(TRUE), BooleanLiteral(FALSE)}

\* expressions of other kinds, with the kind
OtherKeys == {<<NullOperand, NULL_OBJ>>, <<FunctionOperand, FUNCTION_OBJ>>, <<ArrayOperand(0), ARRAY_OBJ>>}

SameLiteral(k, x) == k.type = x.type /\ k.Value = x.Value

\* C19: Integer, String and Boolean keys are accepted in hash literals and
\* hash index expressions: {k: 1}[k] yields Integer 1 and an absent key
\* NULL; a key of another kind yields the unusable as hash key Error, never
\* a fault
C19_HashKeysAccepted ==
    (pkg = "golemjs" /\ program \in HashPrograms /\ StatementDone) =>
        /\ \A k \in HashableKeys, x \in HashableKeys :
                program = HashIndexProgram(k, x) =>
                    IF SameLiteral(k, x) THEN IsInteger(result, 1) ELSE IsNull(result)
        /\ \A k \in HashableKeys, o \in OtherKeys :
                (program = HashIndexProgram(k, o[1]) \/ program = HashIndexProgram(o[1], k)) =>
                    /\ pc # "panicked"
                    /\ IsErrorWith(result, "unusable as hash key: " \o o[2])

(***************************************************************************)
(* evalExpressions: the arguments of a call, the elements of an array.     *)
(***************************************************************************)
\* the three statements of an ArgsProgram have been evaluated
ArgsDone ==
    /\ program \in CallPrograms \cup ArrayPrograms
    /\ pc \in {"returned", "panicked"} \/ (pc = "running" /\ idx > 3)

IsArgEval(entry) == entry.ev = "eval" /\ entry.node = "Identifier" /\ entry.name \in ArgNames

\* the names of the arguments Eval was entered with, in the order of the calls
ArgTrace ==
    LET evals == SelectSeq(log, IsArgEval)
    IN  [k \in DOMAIN evals |-> evals[k].name]

\* the position of the first list member that is not bound, or 0
FirstError(args) ==
    IF \A k \in DOMAIN args : args[k].Value \in {"p", "q"} THEN 0
    ELSE CHOOSE k \in DOMAIN args :
            /\ args[k].Value \in {"y", "z"}
            /\ \A j \in 1..(k - 1) : args[j].Value \in {"p", "q"}

\* the values of a list of bound names: p is 1 and q is 2
ValuesOf(args) == [k \in DOMAIN args |-> Integer(IF args[k].Value = "p" THEN 1 ELSE 2)]

\* C20: arguments and elements are evaluated left to right up to the first
\* Error, which is the result with no function applied and no Array
\* built; without an Error the function receives the values in source order
C20_ExpressionsInOrder ==
    ArgsDone =>
        LET x == program.Statements[3].Expression
            isCall == x.type = "CallExpression"
            args == IF isCall THEN x.Arguments ELSE x.Elements
            first == FirstError(args)
            \* the callee evaluates to a function, the literal to an Array
            covered == IF isCall THEN (x.Function.type = "FunctionLiteral" \/ pkg = "golemjs")
                       ELSE pkg = "golemjs"
        IN  covered =>
                /\ pc # "panicked"
                /\ ArgTrace = [k \in 1..(IF first = 0 THEN Len(args) ELSE first) |-> args[k].Value]
                /\ first # 0 =>
                        /\ Events("apply") = {}
                        /\ IsErrorWith(result, "identifier not found: " \o args[first].Value)
                /\ (first = 0 /\ isCall) =>
                        /\ Cardinality(Events("apply")) = 1
                        /\ Last("apply").args = ValuesOf(args)
                /\ (first = 0 /\ ~isCall) =>
                        /\ result.type = ARRAY_OBJ
                        /\ result.Elements = ValuesOf(args)

\* fn() { 0 }(q, y, ...): q and y are evaluated, nothing after y, no call
C20_Witness ==
    /\ ArgsDone
    /\ program.Statements[3].Expression.type = "CallExpression"
    /\ Len(program.Statements[3].Expression.Arguments) = MaxArgs
    /\ ArgTrace = <<"q", "y">>
    /\ Events("apply") = {}
    /\ IsErrorWith(result, "identifier not found: y")

(***************************************************************************)
(* Built-ins.                                                              *)
(***************************************************************************)
\* both statements of a BuiltinProgram have been evaluated
BuiltinDone ==
    /\ program \in BuiltinPrograms
    /\ pc \in {"returned", "panicked"} \/ (pc = "running" /\ idx > 2)

\* the kind of object an argument expression yields
KindOf(x) ==
    CASE x.type = "Identifier" -> ARRAY_OBJ
      [] x.type = "IntegerLiteral" -> INTEGER_OBJ
      [] x.type = "StringLiteral" -> STRING_OBJ
      [] x.type = "Boolean" -> BOOLEAN_OBJ

Wanted(f) == IF f = "push" THEN 2 ELSE 1

Supported(f) == IF f = "len" THEN {ARRAY_OBJ, STRING_OBJ} ELSE {ARRAY_OBJ}

TypeMessage(f, kind) ==
    IF f = "len" THEN "argument to 'len' not supported, got " \o kind
    ELSE "argument to '" \o f \o "' must be ARRAY, got " \o kind

\* the objects allocated by the let and the arguments: a's Array and one
\* String for each "s"
AllocatedByOperands(args) == 1 + Cardinality({k \in DOMAIN args : args[k].type = "StringLiteral"})

\* C21 (golemjs): len, first, last, rest and push return the wrong number of
\* arguments Error for any other argument count, and the argument Error for
\* a first argument of a kind they do not support; in both cases no Array
\* is created and a is as it was
C21_BuiltinsValidate ==
    (pkg = "golemjs" /\ BuiltinDone) =>
        LET x == program.Statements[2].Expression
            f == x.Function.Value
            args == x.Arguments
            wrongCount == Len(args) # Wanted(f)
            wrongKind == ~wrongCount /\ KindOf(args[1]) \notin Supported(f)
        IN  /\ wrongCount =>
                IsErrorWith(result, "wrong number of arguments. got=" \o Itoa(Len(args))
                                        \o ", want=" \o Itoa(Wanted(f)))
            /\ wrongKind => IsErrorWith(result, TypeMessage(f, KindOf(args[1])))
            /\ (wrongCount \/ wrongKind) =>
                /\ pc = "returned"
                /\ nalloc = AllocatedByOperands(args)
                /\ envs[1].store["a"].type = ARRAY_OBJ
                /\ envs[1].store["a"].Elements = <<Integer(10), Integer(20)>>

\* rest(a, 1): an Error, and no Array but a
C21_Witness ==
    /\ pkg = "golemjs"
    /\ program = BuiltinProgram("rest", <<Identifier("a"), IntegerLiteral(1)>>)
    /\ BuiltinDone
    /\ IsErrorWith(result, "wrong number of arguments. got=2, want=1")
    /\ nalloc = 1

\* the program is a call of a user function, or an operator on an absent operand
CallDone == pc \in {"returned", "panicked"}

\* C23 (golemjs): no program makes Eval end in a fault of the host, except an
\* integer division by zero; a call with fewer or more arguments than
\* parameters and an operator on an absent operand return an Object or Error.
C23_NoHostFault ==
    (pkg = "golemjs" /\ program \in CallCheckPrograms /\ CallDone) =>
        \/ pc = "returned"
        \/ program = DivideByZeroProgram

\* the second run returned
SecondDone == prev # NoRun /\ pc = "returned"

\* C22: the same AST evaluated by two Interpreters from New() yields results
\* of the same kind with the same Inspect rendering.
C22_RunsAgree ==
    SecondDone =>
        /\ result.type = prev.kind
        /\ (result.type # "nil" => Inspect(result) = prev.inspect)

(***************************************************************************)
(* The lexer. A string is the sequence of its bytes, 0..255.               *)
(***************************************************************************)
\* no Interpreter runs
InterpreterIdle ==
    /\ pkg = "golemjs"
    /\ builtins = EmptyStore
    /\ nalloc = 0
    /\ envs = <<>>
    /\ env = 0
    /\ pc = "idle"
    /\ idx = 1
    /\ program = Program(<<>>)
    /\ result = Nil
    /\ log = <<>>
    /\ call = NoCall
    /\ prev = NoRun

interpreter == <<pkg, builtins, envs, nalloc, env, pc, idx, program, result, log, call, prev>>

\* the TokenType constants
ILLEGAL == "ILLEGAL"
EOF == "EOF"
IDENT == "IDENT"
INT == "INT"
STRING_ == "STRING"
ASSIGN == "="
BANG == "!"
EQ == "=="
NOT_EQ == "!="
FUNCTION == "FUNCTION"
LET_ == "LET"
IF_ == "IF"
ELSE_ == "ELSE"
RETURN == "RETURN"

Token(type, literal) == [Type |-> type, Literal |-> literal]

\* string(ch) of a byte: the UTF-8 encoding of the code point ch
ByteString(b) == IF b < 128 THEN <<b>> ELSE <<192 + (b \div 64), 128 + (b % 64)>>

\* the bytes with a case of their own in NextToken's switch, and their TokenType
Operators ==
    [b \in {43, 45, 47, 42, 60, 62, 59, 40, 41, 44, 123, 125} |->
        CASE b = 43 -> "+" [] b = 45 -> "-" [] b = 47 -> "/" [] b = 42 -> "*"
          [] b = 60 -> "<" [] b = 62 -> ">" [] b = 59 -> ";" [] b = 40 -> "("
          [] b = 41 -> ")" [] b = 44 -> "," [] b = 123 -> "{" [] b = 125 -> "}"]

isLetter(b) == (97 <= b /\ b <= 122) \/ (65 <= b /\ b <= 90) \/ b = 95

isDigit(b) == 48 <= b /\ b <= 57

isWhitespace(b) == b \in {32, 9, 10, 13}

\* the keywords, as bytes: fn, let, true, false, if, else, return
Keywords ==
    [w \in {<<102, 110>>, <<108, 101, 116>>, <<116, 114, 117, 101>>,
            <<102, 97, 108, 115, 101>>, <<105, 102>>, <<101, 108, 115, 101>>,
            <<114, 101, 116, 117, 114, 110>>} |->
        CASE w = <<102, 110>> -> FUNCTION
          [] w = <<108, 101, 116>> -> LET_
          [] w = <<116, 114, 117, 101>> -> "TRUE"
          [] w = <<102, 97, 108, 115, 101>> -> "FALSE"
          [] w = <<105, 102>> -> IF_
          [] w = <<101, 108, 115, 101>> -> ELSE_
          [] w = <<114, 101, 116, 117, 114, 110>> -> RETURN]

lookupIdent(ident) == IF ident \in DOMAIN Keywords THEN Keywords[ident] ELSE IDENT

readChar(l) ==
    [l EXCEPT !.ch = IF l.readPosition >= Len(l.input) THEN 0 ELSE l.input[l.readPosition + 1],
              !.position = l.readPosition,
              !.readPosition = l.readPosition + 1]

\* a peekChar that looks at the current character
peekCharMutantCurrent(l) == l.ch

peekChar(l) == IF l.readPosition >= Len(l.input) THEN 0 ELSE l.input[l.readPosition + 1]

RECURSIVE skipWhitespace(_)
skipWhitespace(l) == IF isWhitespace(l.ch) THEN skipWhitespace(readChar(l)) ELSE l

\* the loops of readIdentifier and readNumber
RECURSIVE readWhileLetter(_)
readWhileLetter(l) == IF isLetter(l.ch) THEN readWhileLetter(readChar(l)) ELSE l

RECURSIVE readWhileDigit(_)
readWhileDigit(l) == IF isDigit(l.ch) THEN readWhileDigit(readChar(l)) ELSE l

\* l.input[from:to]
Slice(input, from, to) == SubSeq(input, from + 1, to)

\* a readIdentifier that goes on over digits
readIdentifierMutantDigits(l) ==
    LET RECURSIVE loop(_)
        loop(m) == IF isLetter(m.ch) \/ isDigit(m.ch) THEN loop(readChar(m)) ELSE m
        after == loop(l)
    IN  [text |-> Slice(l.input, l.position, after.position), l |-> after]

readIdentifier(l) ==
    LET after == readWhileLetter(l)
    IN  [text |-> Slice(l.input, l.position, after.position), l |-> after]

\* a readNumber that reads nothing
readNumberMutantEmpty(l) == [text |-> <<>>, l |-> l]

readNumber(l) ==
    LET after == readWhileDigit(l)
    IN  [text |-> Slice(l.input, l.position, after.position), l |-> after]

\* New(input)
NewLexer(input) == readChar([input |-> input, position |-> 0, readPosition |-> 0, ch |-> 0])

\* NextToken once the white space is skipped: the Token and the lexer after
NextTokenAt(l) ==
    CASE l.ch \in {61, 33} ->
            IF peekChar(l) = 61
            THEN LET m == readChar(l)
                 IN  [tok |-> Token(IF l.ch = 61 THEN EQ ELSE NOT_EQ,
                                    ByteString(l.ch) \o ByteString(m.ch)),
                      l |-> readChar(m)]
            ELSE [tok |-> Token(IF l.ch = 61 THEN ASSIGN ELSE BANG, ByteString(l.ch)),
                  l |-> readChar(l)]
      [] l.ch \in DOMAIN Operators ->
            [tok |-> Token(Operators[l.ch], ByteString(l.ch)), l |-> readChar(l)]
      [] l.ch = 0 -> [tok |-> Token(EOF, <<>>), l |-> readChar(l)]
      [] isLetter(l.ch) ->
            LET r == readIdentifier(l)
            IN  [tok |-> Token(lookupIdent(r.text), r.text), l |-> r.l]
      [] isDigit(l.ch) ->
            LET r == readNumber(l)
            IN  [tok |-> Token(INT, r.text), l |-> r.l]
      [] OTHER -> [tok |-> Token(ILLEGAL, ByteString(l.ch)), l |-> readChar(l)]

\* the largest length of a generated input
MaxInput == 3

\* calls of NextToken made after the one that must have returned EOF
MaxExtraCalls == 2

\* NUL, space, newline, !, 1, =, [, _, f, i, n and 0xE9
CoreBytes == {0, 32, 10, 33, 49, 61, 91, 95, 102, 105, 110, 233}

CoreInputs == UNION {[1..n -> CoreBytes] : n \in 0..MaxInput}

\* every byte alone, and before and after a letter
ByteInputs == UNION {{<<b>>, <<b, 102>>, <<102, b>>} : b \in 0..255}

\* let, letter, ab1, ===, =!, "a", [1], a:1, return, true, false, else,
\* 10 != 9;
NamedInputs ==
    {<<108, 101, 116>>, <<108, 101, 116, 116, 101, 114>>, <<97, 98, 49>>,
     <<61, 61, 61>>, <<61, 33>>, <<34, 97, 34>>, <<91, 49, 93>>, <<97, 58, 49>>,
     <<114, 101, 116, 117, 114, 110>>, <<116, 114, 117, 101>>,
     <<102, 97, 108, 115, 101>>, <<101, 108, 115, 101>>,
     <<49, 48, 32, 33, 61, 32, 57, 59>>}

Inputs == CoreInputs \cup ByteInputs \cup NamedInputs

\* l := New(input)
InitLexer ==
    /\ InterpreterIdle
    /\ lexer \in {NewLexer(input) : input \in Inputs}
    /\ tokens = <<>>
    /\ parser = NoParser
    /\ nodes = <<>>
    /\ astcheck = NoCheck

\* tok := l.NextToken(); tokens keeps the Token with the cursor at its first
\* byte (start) and the cursor when NextToken returns (end)
NextToken ==
    /\ pc = "idle" /\ lexer # NoLexer
    /\ Len(tokens) < Len(lexer.input) + 1 + MaxExtraCalls
    /\ LET skipped == skipWhitespace(lexer)
           r == NextTokenAt(skipped)
       IN  /\ lexer' = r.l
           /\ tokens' = Append(tokens, [tok |-> r.tok, before |-> lexer.position,
                                        start |-> skipped.position, end |-> r.l.position])
    /\ UNCHANGED <<interpreter, astcheck, parser, nodes>>

NextLexer == NextToken

SpecLexer == InitLexer /\ [][NextLexer]_vars

(***************************************************************************)
(* Properties of the lexer.                                                *)
(***************************************************************************)
Lexing == lexer # NoLexer

\* the Token of the k-th call
Tok(k) == tokens[k].tok

\* C24: the cursor never moves backward, a call that returns a Token other
\* than EOF moves it forward, an EOF Token is returned within
\* len(input) + 1 calls, and the slices NextToken takes are within the input.
C24_CursorAdvances ==
    Lexing =>
        /\ \A k \in DOMAIN tokens :
              /\ tokens[k].before <= tokens[k].start
              /\ tokens[k].start <= tokens[k].end
              /\ k > 1 => tokens[k].before = tokens[k - 1].end
              /\ Tok(k).Type # EOF => tokens[k].before < tokens[k].end
              /\ Tok(k).Type \in {IDENT, INT} \cup {Keywords[w] : w \in DOMAIN Keywords} =>
                    tokens[k].end <= Len(lexer.input)
        /\ tokens # <<>> => lexer.position = tokens[Len(tokens)].end
        /\ lexer.position < lexer.readPosition
        /\ Len(tokens) > Len(lexer.input) =>
              \E k \in 1..(Len(lexer.input) + 1) : Tok(k).Type = EOF

\* =1 lexed to the end and beyond: ASSIGN, INT, EOF, EOF
C24_Witness ==
    /\ lexer.input = <<61, 49>>
    /\ Len(tokens) = 4
    /\ Tok(1).Type = ASSIGN /\ Tok(2).Type = INT
    /\ Tok(3).Type = EOF /\ Tok(4).Type = EOF
    /\ lexer.position = 4

\* the byte of the input at cursor c (the first byte is at cursor 0), or -1
ByteAt(c) == IF c < Len(lexer.input) THEN lexer.input[c + 1] ELSE -1

\* the kinds of the Tokens returned so far
Kinds == [k \in DOMAIN tokens |-> Tok(k).Type]

\* C25: = or ! followed by = is one Token, EQ or NOT_EQ, with the two bytes
\* as text; followed by any other byte or by the end of the input it is
\* ASSIGN or BANG with the one byte as text, and the next byte is not
\* consumed: the cursor is on it, and it starts the next Token.
C25_TwoCharOperators ==
    Lexing =>
        /\ \A k \in DOMAIN tokens :
              LET s == tokens[k].start
                  c == ByteAt(s)
              IN  c \in {61, 33} =>
                    IF ByteAt(s + 1) = 61
                    THEN /\ Tok(k) = Token(IF c = 61 THEN EQ ELSE NOT_EQ, <<c, 61>>)
                         /\ tokens[k].end = s + 2
                    ELSE /\ Tok(k) = Token(IF c = 61 THEN ASSIGN ELSE BANG, <<c>>)
                         /\ tokens[k].end = s + 1
                         /\ (k + 1 \in DOMAIN tokens /\ ~isWhitespace(ByteAt(s + 1))) =>
                               tokens[k + 1].start = s + 1
        /\ (lexer.input = <<61, 61, 61>> /\ Len(tokens) >= 3) =>
              SubSeq(Kinds, 1, 3) = <<EQ, ASSIGN, EOF>>
        /\ (lexer.input = <<61, 33>> /\ Len(tokens) >= 3) =>
              SubSeq(Kinds, 1, 3) = <<ASSIGN, BANG, EOF>>

\* !=! lexed: NOT_EQ with text !=, then BANG with text !
C25_Witness ==
    /\ lexer.input = <<33, 61, 33>>
    /\ Len(tokens) = 2
    /\ Tok(1) = Token(NOT_EQ, <<33, 61>>)
    /\ Tok(2) = Token(BANG, <<33>>)

\* the bytes NextToken has a rule for: white space, letters and underscore,
\* digits, and the operator and delimiter bytes
Recognised(b) ==
    isWhitespace(b) \/ isLetter(b) \/ isDigit(b) \/ b \in DOMAIN Operators \/ b \in {61, 33}

\* C26: a byte of the input that no rule recognises is returned as one
\* ILLEGAL Token whose text is that byte, and the cursor moves to the next
\* byte.
C26_IllegalBytes ==
    Lexing =>
        \A k \in DOMAIN tokens :
            LET s == tokens[k].start
                c == ByteAt(s)
            IN  (c # -1 /\ ~Recognised(c)) =>
                    /\ Tok(k) = Token(ILLEGAL, <<c>>)
                    /\ tokens[k].end = s + 1

\* the end of the longest run of bytes from cursor c on that satisfy the test:
\* letters when letters is TRUE, digits otherwise
RECURSIVE RunEnd(_, _)
RunEnd(c, letters) ==
    IF ByteAt(c) # -1 /\ (IF letters THEN isLetter(ByteAt(c)) ELSE isDigit(ByteAt(c)))
    THEN RunEnd(c + 1, letters)
    ELSE c

KeywordKinds == {Keywords[w] : w \in DOMAIN Keywords}

C28_EveryKindReturned ==
    Lexing =>
        \A k \in DOMAIN tokens :
            LET c == ByteAt(tokens[k].start)
            IN  /\ c \in {34, 91, 93, 58} => Tok(k).Type # ILLEGAL
                /\ c = 34 => Tok(k).Type = STRING_

\* the texts of the first n Tokens, one after the other
RECURSIVE Texts(_)
Texts(n) == IF n = 0 THEN <<>> ELSE Texts(n - 1) \o Tok(n).Literal

NotWhitespace(b) == ~isWhitespace(b)

\* the number of Tokens returned before the first EOF, when EOF was returned
BeforeEOF == (CHOOSE k \in DOMAIN tokens : Tok(k).Type = EOF /\ \A j \in 1..(k - 1) : Tok(j).Type # EOF) - 1

\* C29: for an input without NUL bytes no Token's text holds white space, and
\* the texts of the Tokens before EOF, in order, are the input without its
\* spaces, tabs, newlines and carriage returns.
C29_TextsAreTheInput ==
    (Lexing /\ \A i \in DOMAIN lexer.input : lexer.input[i] # 0) =>
        /\ \A k \in DOMAIN tokens : \A i \in DOMAIN Tok(k).Literal : ~isWhitespace(Tok(k).Literal[i])
        /\ (\E k \in DOMAIN tokens : Tok(k).Type = EOF) =>
              Texts(BeforeEOF) = SelectSeq(lexer.input, NotWhitespace)

(***************************************************************************)
(* The html parser. A string is the sequence of its characters.            *)
(***************************************************************************)
ElementNode == "ElementNode"
TextNode == "TextNode"
CommentNode == "CommentNode"
DoctypeNode == "DoctypeNode"

\* NewNode(nodeType, tagName)
NewNode(nodeType, tagName) ==
    [Type |-> nodeType, TagName |-> tagName, Text |-> "", Attrs |-> EmptyStore,
     Children |-> <<>>, Parent |-> 0]

\* n.AddChild(child), where child is the new Node: the heap after it
AddChild(heap, n, child) ==
    LET c == Len(heap) + 1
    IN  [k \in 1..c |->
            IF k = c THEN [child EXCEPT !.Parent = n]
            ELSE IF k = n THEN [heap[n] EXCEPT !.Children = Append(@, c)]
            ELSE heap[k]]

voidElements ==
    {"area", "base", "br", "col", "embed", "hr", "img", "input", "link", "meta", "param",
     "source", "track", "wbr"}

\* the characters of a string as one string
RECURSIVE Str(_)
Str(chars) == IF chars = <<>> THEN "" ELSE Head(chars) \o Str(Tail(chars))

ToLowerChar(c) ==
    CASE c = "A" -> "a"
          [] c = "B" -> "b"
          [] c = "C" -> "c"
          [] c = "D" -> "d"
          [] c = "E" -> "e"
          [] c = "F" -> "f"
          [] c = "G" -> "g"
          [] c = "H" -> "h"
          [] c = "I" -> "i"
          [] c = "J" -> "j"
          [] c = "K" -> "k"
          [] c = "L" -> "l"
          [] c = "M" -> "m"
          [] c = "N" -> "n"
          [] c = "O" -> "o"
          [] c = "P" -> "p"
          [] c = "Q" -> "q"
          [] c = "R" -> "r"
          [] c = "S" -> "s"
          [] c = "T" -> "t"
          [] c = "U" -> "u"
          [] c = "V" -> "v"
          [] c = "W" -> "w"
          [] c = "X" -> "x"
          [] c = "Y" -> "y"
          [] c = "Z" -> "z"
          [] OTHER -> c

\* strings.ToLower
ToLower(chars) == [k \in DOMAIN chars |-> ToLowerChar(chars[k])]

IsSpace(c) == c \in {" ", "\n", "\t", "\r"}

\* strings.TrimSpace
RECURSIVE TrimSpace(_)
TrimSpace(chars) ==
    IF chars = <<>> THEN chars
    ELSE IF IsSpace(Head(chars)) THEN TrimSpace(Tail(chars))
    ELSE IF IsSpace(chars[Len(chars)]) THEN TrimSpace(SubSeq(chars, 1, Len(chars) - 1))
    ELSE chars

\* strings.Trim(chars, "\"'")
RECURSIVE TrimQuotes(_)
TrimQuotes(chars) ==
    IF chars = <<>> THEN chars
    ELSE IF Head(chars) \in {"\"", "'"} THEN TrimQuotes(Tail(chars))
    ELSE IF chars[Len(chars)] \in {"\"", "'"} THEN TrimQuotes(SubSeq(chars, 1, Len(chars) - 1))
    ELSE chars

\* strings.Fields: the runs of characters between white space
RECURSIVE Fields(_)
Fields(chars) ==
    IF chars = <<>> THEN <<>>
    ELSE IF IsSpace(Head(chars)) THEN Fields(Tail(chars))
    ELSE LET stops == {k \in DOMAIN chars : IsSpace(chars[k])}
             end == IF stops = {} THEN Len(chars) + 1
                    ELSE CHOOSE k \in stops : \A j \in stops : k <= j
         IN  <<SubSeq(chars, 1, end - 1)>> \o Fields(SubSeq(chars, end, Len(chars)))

\* strings.HasPrefix(p.input[p.pos:], prefix)
HasPrefixAt(p, prefix) ==
    /\ p.pos + Len(prefix) <= Len(p.input)
    /\ SubSeq(p.input, p.pos + 1, p.pos + Len(prefix)) = prefix

\* p.input[p.pos + k], when it is in range
CharAt(p, k) == p.input[p.pos + k + 1]

\* p.consumeChar()
consumeChar(p) == IF p.pos >= Len(p.input) THEN p ELSE [p EXCEPT !.pos = @ + 1]

\* p.consumeUntil(char): the text consumed and the parser after
consumeUntil(p, char) ==
    LET hits == {k \in (p.pos + 1)..Len(p.input) : p.input[k] = char}
        stop == IF hits = {} THEN Len(p.input)
                ELSE (CHOOSE k \in hits : \A j \in hits : k <= j) - 1
    IN  [text |-> SubSeq(p.input, p.pos + 1, stop), p |-> [p EXCEPT !.pos = stop]]

\* NewParser(input)
NewParser(input) == [pos |-> 0, input |-> input, current |-> 0, stack |-> <<>>, at |-> "new"]

\* the loop of a closing tag: pops until the Node on top has the tag name, or
\* until the root alone is left
RECURSIVE Pop(_, _, _)
Pop(p, heap, tagName) ==
    IF Len(p.stack) > 1
    THEN LET last == p.stack[Len(p.stack)]
             popped == SubSeq(p.stack, 1, Len(p.stack) - 1)
         IN  IF heap[last].TagName = tagName
             THEN [p EXCEPT !.stack = popped, !.current = popped[Len(popped)]]
             ELSE Pop([p EXCEPT !.stack = popped], heap, tagName)
    ELSE p

\* the attributes of an opening tag: name="value" pairs, a later one of the
\* same name replaces an earlier one
RECURSIVE Attributes(_, _)
Attributes(parts, attrs) ==
    IF parts = <<>> THEN attrs
    ELSE LET attr == Head(parts)
             eqs == {k \in DOMAIN attr : attr[k] = "="}
         IN  IF eqs = {} THEN Attributes(Tail(parts), attrs)
             ELSE LET e == CHOOSE k \in eqs : \A j \in eqs : k <= j
                      name == Str(ToLower(SubSeq(attr, 1, e - 1)))
                      value == Str(TrimQuotes(SubSeq(attr, e + 1, Len(attr))))
                  IN  Attributes(Tail(parts),
                         [n \in DOMAIN attrs \cup {name} |-> IF n = name THEN value ELSE attrs[n]])

\* the largest number of pieces of a generated input
MaxChunks == 4

\* <div>, <p>, </p>, </div>, <br>, Hi
Chunks ==
    {<<"<", "d", "i", "v", ">">>,
     <<"<", "p", ">">>,
     <<"<", "/", "p", ">">>,
     <<"<", "/", "d", "i", "v", ">">>,
     <<"<", "b", "r", ">">>,
     <<"H", "i">>}

RECURSIVE Flatten(_)
Flatten(pieces) == IF pieces = <<>> THEN <<>> ELSE Head(pieces) \o Flatten(Tail(pieces))

ChunkInputs == {Flatten(pieces) : pieces \in UNION {[1..n -> Chunks] : n \in 0..MaxChunks}}

NamedHtml ==
    {\* <div><p>Hello</p><p>World</p></div>
     <<"<", "d", "i", "v", ">", "<", "p", ">", "H", "e", "l", "l", "o", "<", "/", "p", ">", "<", "p", ">", "W", "o", "r", "l", "d", "<", "/", "p", ">", "<", "/", "d", "i", "v", ">">>,
     \* <div class="container"><p id="greeting">Hello</p></div>
     <<"<", "d", "i", "v", " ", "c", "l", "a", "s", "s", "=", "\"", "c", "o", "n", "t", "a", "i", "n", "e", "r", "\"", ">", "<", "p", " ", "i", "d", "=", "\"", "g", "r", "e", "e", "t", "i", "n", "g", "\"", ">", "H", "e", "l", "l", "o", "<", "/", "p", ">", "<", "/", "d", "i", "v", ">">>,
     \* <img src="test.jpg"/><br/>
     <<"<", "i", "m", "g", " ", "s", "r", "c", "=", "\"", "t", "e", "s", "t", ".", "j", "p", "g", "\"", "/", ">", "<", "b", "r", "/", ">">>,
     \* <!-- Header --><h1>Title</h1><!-- Footer -->
     <<"<", "!", "-", "-", " ", "H", "e", "a", "d", "e", "r", " ", "-", "-", ">", "<", "h", "1", ">", "T", "i", "t", "l", "e", "<", "/", "h", "1", ">", "<", "!", "-", "-", " ", "F", "o", "o", "t", "e", "r", " ", "-", "-", ">">>,
     \* <!DOCTYPE html><html><head></head><body></body></html>
     <<"<", "!", "D", "O", "C", "T", "Y", "P", "E", " ", "h", "t", "m", "l", ">", "<", "h", "t", "m", "l", ">", "<", "h", "e", "a", "d", ">", "<", "/", "h", "e", "a", "d", ">", "<", "b", "o", "d", "y", ">", "<", "/", "b", "o", "d", "y", ">", "<", "/", "h", "t", "m", "l", ">">>,
     \* <p>Hi</P >Hi
     <<"<", "p", ">", "H", "i", "<", "/", "P", " ", ">", "H", "i">>,
     \* <div/>Hi
     <<"<", "d", "i", "v", "/", ">", "H", "i">>,
     \* <img/>Hi
     <<"<", "i", "m", "g", "/", ">", "H", "i">>,
     \* <p>a<
     <<"<", "p", ">", "a", "<">>,
     \* <>x
     <<"<", ">", "x">>,
     \* <!-- a-b -->
     <<"<", "!", "-", "-", " ", "a", "-", "b", " ", "-", "-", ">">>,
     \* <!x>
     <<"<", "!", "x", ">">>,
     \* <p><!doctype html>
     <<"<", "p", ">", "<", "!", "d", "o", "c", "t", "y", "p", "e", " ", "h", "t", "m", "l", ">">>,
     \* <!-- a
     <<"<", "!", "-", "-", " ", "a">>,
     \* <div
     <<"<", "d", "i", "v">>}

HtmlInputs == ChunkInputs \cup NamedHtml

\* parser := NewParser(input)
InitHtml ==
    /\ InterpreterIdle
    /\ lexer = NoLexer
    /\ tokens = <<>>
    /\ parser \in {NewParser(input) : input \in HtmlInputs}
    /\ nodes = <<>>
    /\ astcheck = NoCheck

Looping == parser.at = "loop" /\ parser.pos < Len(parser.input)

AtTag == Looping /\ CharAt(parser, 0) = "<" /\ parser.pos + 1 < Len(parser.input)

\* doc := NewDocument(); p.current = doc.Root; p.stack = append(p.stack, p.current)
ParseBegin ==
    /\ parser.at = "new"
    /\ nodes' = <<NewNode(ElementNode, "document")>>
    /\ parser' = [parser EXCEPT !.current = 1, !.stack = Append(@, 1), !.at = "loop"]
    /\ UNCHANGED <<interpreter, astcheck, lexer, tokens>>

\* a < is the last character: break
ParseBreak ==
    /\ Looping /\ CharAt(parser, 0) = "<" /\ parser.pos + 1 >= Len(parser.input)
    /\ parser' = [parser EXCEPT !.at = "done"]
    /\ UNCHANGED <<interpreter, astcheck, lexer, tokens, nodes>>

\* case '!': a comment, a DOCTYPE declaration, or neither, which consumes
\* nothing
ParseBang ==
    /\ AtTag /\ CharAt(parser, 1) = "!"
    /\ IF parser.pos + 3 < Len(parser.input) /\ CharAt(parser, 2) = "-" /\ CharAt(parser, 3) = "-"
       THEN LET r == consumeUntil(consumeChar(consumeChar(consumeChar(consumeChar(parser)))), "-")
                p == r.p
            IN  IF p.pos + 2 < Len(p.input) /\ CharAt(p, 1) = "-" /\ CharAt(p, 2) = ">"
                THEN /\ parser' = [p EXCEPT !.pos = @ + 3]
                     /\ nodes' = AddChild(nodes, p.current,
                            [NewNode(CommentNode, "") EXCEPT !.Text = Str(TrimSpace(r.text))])
                ELSE /\ parser' = p
                     /\ nodes' = nodes
       ELSE IF HasPrefixAt(parser, <<"<", "!", "D", "O", "C", "T", "Y", "P", "E">>)
       THEN LET r == consumeUntil(consumeChar(consumeChar(parser)), ">")
            IN  /\ parser' = consumeChar(r.p)
                /\ nodes' = AddChild(nodes, parser.current,
                       [NewNode(DoctypeNode, "") EXCEPT !.Text = Str(TrimSpace(r.text))])
       ELSE UNCHANGED <<parser, nodes>>
    /\ UNCHANGED <<interpreter, astcheck, lexer, tokens>>

\* case '/': a closing tag
ParseClosingTag ==
    /\ AtTag /\ CharAt(parser, 1) = "/"
    /\ LET r == consumeUntil(consumeChar(consumeChar(parser)), ">")
           tagName == Str(ToLower(TrimSpace(r.text)))
       IN  parser' = Pop(consumeChar(r.p), nodes, tagName)
    /\ UNCHANGED <<interpreter, astcheck, lexer, tokens, nodes>>

\* default: an opening tag
ParseOpeningTag ==
    /\ AtTag /\ CharAt(parser, 1) \notin {"!", "/"}
    /\ LET r == consumeUntil(consumeChar(parser), ">")
           p == consumeChar(r.p)
           selfClosing == r.text # <<>> /\ r.text[Len(r.text)] = "/"
           tag == IF selfClosing THEN SubSeq(r.text, 1, Len(r.text) - 1) ELSE r.text
           parts == Fields(tag)
       IN  IF Len(parts) = 0
           THEN /\ parser' = p
                /\ nodes' = nodes
           ELSE LET tagName == Str(ToLower(parts[1]))
                    node == [NewNode(ElementNode, tagName) EXCEPT
                                !.Attrs = Attributes(Tail(parts), EmptyStore)]
                    heap == AddChild(nodes, p.current, node)
                IN  /\ nodes' = heap
                    /\ parser' = IF tagName \notin voidElements /\ ~selfClosing
                                 THEN [p EXCEPT !.current = Len(heap), !.stack = Append(@, Len(heap))]
                                 ELSE p
    /\ UNCHANGED <<interpreter, astcheck, lexer, tokens>>

\* text between tags
ParseText ==
    /\ Looping /\ CharAt(parser, 0) # "<"
    /\ LET r == consumeUntil(parser, "<")
           text == TrimSpace(r.text)
       IN  /\ parser' = r.p
           /\ nodes' = IF text # <<>>
                       THEN AddChild(nodes, parser.current,
                                [NewNode(TextNode, "") EXCEPT !.Text = Str(text)])
                       ELSE nodes
    /\ UNCHANGED <<interpreter, astcheck, lexer, tokens>>

\* the input is consumed: return doc, nil
ParseEnd ==
    /\ parser.at = "loop" /\ parser.pos >= Len(parser.input)
    /\ parser' = [parser EXCEPT !.at = "done"]
    /\ UNCHANGED <<interpreter, astcheck, lexer, tokens, nodes>>

NextHtml ==
    \/ ParseBegin
    \/ ParseBreak
    \/ ParseBang
    \/ ParseClosingTag
    \/ ParseOpeningTag
    \/ ParseText
    \/ ParseEnd

SpecHtml == InitHtml /\ [][NextHtml]_vars

\* the pieces of declarations, comments and tags: nothing, <!, <!--, -->,
\* <!DOCTYPE, x>, <p and a
BangChunks ==
    {<<>>, <<"<", "!">>, <<"<", "!", "-", "-">>, <<"-", "-", ">">>,
     <<"<", "!", "D", "O", "C", "T", "Y", "P", "E">>, <<"x", ">">>, <<"<", "p">>, <<"a">>}

\* two pieces, one after the other
BangInputs == {a \o b : a, b \in BangChunks}

\* parser := NewParser(input) for the named inputs and the inputs of two pieces
InitHtmlNamed ==
    /\ InterpreterIdle
    /\ lexer = NoLexer
    /\ tokens = <<>>
    /\ parser \in {NewParser(input) : input \in NamedHtml \cup BangInputs}
    /\ nodes = <<>>
    /\ astcheck = NoCheck

\* Parse is a loop that waits on nothing: an iteration that can change the
\* state is taken
SpecHtmlFair == InitHtmlNamed /\ [][NextHtml]_vars /\ WF_vars(NextHtml)

(***************************************************************************)
(* Properties of the html parser.                                          *)
(***************************************************************************)
\* the parser is at a closing tag: its tag name, trimmed and lower-cased
ClosingTagName ==
    Str(ToLower(TrimSpace(consumeUntil(consumeChar(consumeChar(parser)), ">").text)))

\* the positions in the stack, above the root, of the open elements with the
\* closing tag's name
OpenMatches == {k \in 2..Len(parser.stack) : nodes[parser.stack[k]].TagName = ClosingTagName}

Nearest_(hits) == CHOOSE k \in hits : \A j \in hits : j <= k

\* the parser is at an opening tag of a void element or with a / at its end
AtUnpushedTag ==
    /\ AtTag /\ CharAt(parser, 1) \notin {"!", "/"}
    /\ LET text == consumeUntil(consumeChar(parser), ">").text
           parts == Fields(text)
       IN  /\ Len(parts) > 0
           /\ \/ text[Len(text)] = "/"
              \/ Str(ToLower(parts[1])) \in voidElements

\* <div><p>Hello</p><p>World</p></div>
NestedInput ==
    <<"<", "d", "i", "v", ">", "<", "p", ">", "H", "e", "l", "l", "o", "<", "/", "p", ">",
      "<", "p", ">", "W", "o", "r", "l", "d", "<", "/", "p", ">", "<", "/", "d", "i", "v", ">">>

\* the tag names, or for a text node the text, of the children of node n
ChildrenOf(n) ==
    [k \in DOMAIN nodes[n].Children |->
        LET c == nodes[nodes[n].Children[k]]
        IN  IF c.Type = TextNode THEN c.Text ELSE c.TagName]

\* a closing tag with an open element of its name pops the stack down to and
\* including the nearest one and makes its parent the current node
ClosingTagPops ==
    (AtTag /\ CharAt(parser, 1) = "/" /\ OpenMatches # {}) =>
        LET m == Nearest_(OpenMatches)
        IN  /\ parser'.stack = SubSeq(parser.stack, 1, m - 1)
            /\ parser'.current = nodes[parser.stack[m]].Parent

\* a void or self-closing element is added and not pushed
UnpushedTagStays ==
    AtUnpushedTag =>
        /\ parser'.stack = parser.stack
        /\ parser'.current = parser.current
        /\ Len(nodes') = Len(nodes) + 1

\* void elements have no children and are not on the stack; the nested input
\* yields document > div > (p > Hello, p > World)
TreeShape ==
    /\ \A k \in DOMAIN nodes :
          (nodes[k].Type = ElementNode /\ nodes[k].TagName \in voidElements) =>
              /\ nodes[k].Children = <<>>
              /\ \A i \in DOMAIN parser.stack : parser.stack[i] # k
    /\ (parser.input = NestedInput /\ parser.at = "done") =>
          /\ Len(nodes) = 6
          /\ ChildrenOf(1) = <<"div">>
          /\ ChildrenOf(2) = <<"p", "p">>
          /\ ChildrenOf(3) = <<"Hello">> /\ ChildrenOf(5) = <<"World">>
          /\ nodes[4].Type = TextNode /\ nodes[6].Type = TextNode

\* C30: a closing tag pops the stack down to and including the nearest open
\* element of its lower-cased name and makes that element's parent the
\* current node; the nested input yields a div with two p children of one
\* text child each; void and self-closing elements are never pushed and
\* never receive children.
C30_ClosingTagPops ==
    /\ []TreeShape
    /\ [][ClosingTagPops /\ UnpushedTagStays]_vars

(***************************************************************************)
(* Package ast: the Node types and the type helpers. A Node is given by    *)
(* its dynamic type and its fields; a nil interface has the type "nil",    *)
(* and a type declared outside the package the type "Other".               *)
(***************************************************************************)
AstTypes ==
    {"Program", "Identifier", "Literal", "BinaryExpression", "VariableDeclaration",
     "FunctionDeclaration", "CallExpression", "BlockStatement", "IfStatement",
     "WhileStatement", "ReturnStatement"}

\* a method set in which CallExpression has statementNode as well
MarkerMethodsMutantCallIsStatement(type) ==
    CASE type \in {"Identifier", "Literal", "BinaryExpression"} -> {"expressionNode"}
      [] type = "CallExpression" -> {"expressionNode", "statementNode"}
      [] type \in {"VariableDeclaration", "FunctionDeclaration", "BlockStatement",
                   "IfStatement", "WhileStatement", "ReturnStatement"} -> {"statementNode"}
      [] OTHER -> {}

\* the marker methods each type declares
MarkerMethods(type) ==
    CASE type \in {"Identifier", "Literal", "BinaryExpression", "CallExpression"} ->
            {"expressionNode"}
      [] type \in {"VariableDeclaration", "FunctionDeclaration", "BlockStatement",
                   "IfStatement", "WhileStatement", "ReturnStatement"} -> {"statementNode"}
      [] OTHER -> {}

\* _, ok := node.(Expression)
IsExpression(node) == "expressionNode" \in MarkerMethods(node.type)

\* _, ok := node.(Statement)
IsStatement(node) == "statementNode" \in MarkerMethods(node.type)

GetNodeType(node) == IF node.type \in AstTypes THEN node.type ELSE "Unknown"

\* the Nodes given to the helpers: every type with some field values, a nil
\* Node and a Node of a type of another package
AstNames == {"x", "y", "add"}
AstLeaves ==
    {[type |-> "Identifier", Value |-> n] : n \in AstNames}
    \cup {[type |-> "Literal", Value |-> v] : v \in {"5", "true", "null"}}
AstBlocks ==
    {[type |-> "BlockStatement", Statements |-> <<>>]}
    \cup {[type |-> "BlockStatement",
           Statements |-> <<[type |-> "ReturnStatement", ReturnValue |-> x]>>] : x \in AstLeaves}
AstNodes ==
    AstLeaves \cup AstBlocks
    \cup {[type |-> "BinaryExpression", Left |-> l, Operator |-> op, Right |-> r] :
            l \in AstLeaves, op \in {"+", "=="}, r \in AstLeaves}
    \cup {[type |-> "CallExpression", Function |-> f, Arguments |-> <<a>>] :
            f \in AstLeaves, a \in AstLeaves}
    \cup {[type |-> "VariableDeclaration", Name |-> n, Value |-> v] :
            n \in AstNames, v \in AstLeaves}
    \cup {[type |-> "FunctionDeclaration", Name |-> n, Parameters |-> <<>>, Body |-> b] :
            n \in AstNames, b \in AstBlocks}
    \cup {[type |-> "IfStatement", Condition |-> c, Consequence |-> b] :
            c \in AstLeaves, b \in AstBlocks}
    \cup {[type |-> "WhileStatement", Condition |-> c, Body |-> b] :
            c \in AstLeaves, b \in AstBlocks}
    \cup {[type |-> "ReturnStatement", ReturnValue |-> x] : x \in AstLeaves}
    \cup {[type |-> "Program", Statements |-> <<s>>] : s \in AstBlocks}
    \cup {[type |-> "nil"], [type |-> "Other"]}

InitAst ==
    /\ InterpreterIdle
    /\ lexer = NoLexer
    /\ tokens = <<>>
    /\ parser = NoParser
    /\ nodes = <<>>
    /\ astcheck \in {[at |-> "given", node |-> n] : n \in AstNodes}

\* the helpers are applied to the Node, as TestTypeChecking does
CheckNode ==
    /\ astcheck.at = "given"
    /\ astcheck' = [at |-> "checked", node |-> astcheck.node,
                    isExpr |-> IsExpression(astcheck.node),
                    isStmt |-> IsStatement(astcheck.node),
                    nodeType |-> GetNodeType(astcheck.node)]
    /\ UNCHANGED <<interpreter, lexer, tokens, parser, nodes>>

NextAst == CheckNode

SpecAst == InitAst /\ [][NextAst]_vars

Checked == astcheck.at = "checked"

\* C31: for every Node type but Program exactly one of IsExpression and
\* IsStatement holds (expressions: Identifier, Literal, BinaryExpression,
\* CallExpression; the other six are statements), and GetNodeType returns the
\* type's own name, "Unknown" only for a Node of no listed type.
C31_TypeHelpers ==
    Checked =>
        LET type == astcheck.node.type
        IN  /\ type \in AstTypes \ {"Program"} => (astcheck.isExpr /= astcheck.isStmt)
            /\ type \in {"Identifier", "Literal", "BinaryExpression", "CallExpression"} =>
                  astcheck.isExpr
            /\ type \in {"VariableDeclaration", "FunctionDeclaration", "BlockStatement",
                         "IfStatement", "WhileStatement", "ReturnStatement"} => astcheck.isStmt
            /\ type \in AstTypes => astcheck.nodeType = type
            /\ astcheck.nodeType = "Unknown" <=> type \notin AstTypes

\* a CallExpression was checked: an expression, not a statement
C31_Witness ==
    /\ Checked
    /\ astcheck.node.type = "CallExpression"
    /\ astcheck.isExpr /\ ~astcheck.isStmt
    /\ astcheck.nodeType = "CallExpression"

(***************************************************************************)
(* Properties of calls and closures.                                       *)
(***************************************************************************)
\* the frame Program's last statement, the call, has returned
FrameDone ==
    /\ program \in FramePrograms
    /\ pc \in {"returned", "panicked"} \/ (pc = "running" /\ idx > Len(program.Statements))

\* the names the Program declares at the top: x, f and, when nested, g
TopNames == IF Len(program.Statements) = 4 THEN {"x", "f", "g"} ELSE {"x", "f"}

\* C32: after the call of a user Function has returned, the caller's
\* Environment and the captured Environment hold the bindings they held
\* before: the root holds x = 5 and the functions, the Environment of g's
\* call holds b and y, and a, t and the body's x are in no Environment that
\* another call or the Program can reach.
C32_CallLeavesEnvironments ==
    FrameDone =>
        /\ DOMAIN envs[1].store = TopNames
        /\ IsInteger(envs[1].store["x"], 5)
        /\ \A e \in DOMAIN envs :
              "b" \in DOMAIN envs[e].store =>
                  /\ DOMAIN envs[e].store = {"b", "y"}
                  /\ envs[e].outer = 1
        /\ \A e \in DOMAIN envs :
              "a" \in DOMAIN envs[e].store =>
                  /\ DOMAIN envs[e].store \subseteq {"a", "x", "t"}
                  /\ envs[e].outer = 1

\* the Program has run to its end
Finished == pc = "returned" /\ idx > Len(program.Statements)

\* C33: evaluating a function literal evaluates no statement of its body and
\* changes no Environment, and the Function holds the current Environment
\* itself: a binding made in it after the literal was evaluated, the
\* function's own name included, is seen by the body on a later call.
C33_LiteralCapturesEnvironment ==
    /\ (program = LaterBindingProgram /\ pc = "running" /\ idx = 3) =>
          /\ Len(envs) = 1
          /\ DOMAIN envs[1].store = {"q", "f"}
          /\ IsInteger(envs[1].store["q"], 1)
          /\ envs[1].store["f"].type = FUNCTION_OBJ
          /\ envs[1].store["f"].Env = 1
          /\ \A i \in DOMAIN log :
                log[i].ev = "eval" => ~(log[i].node = "Identifier" /\ log[i].name = "z")
          /\ Cardinality({i \in DOMAIN log : log[i].ev = "eval" /\ log[i].node = "LetStatement"
                                               /\ log[i].name = "q"}) = 1
    /\ (program \in {LaterBindingProgram, MadeLaterProgram} /\ Finished) =>
          IsInteger(result, 3)
    /\ (program = OwnNameProgram /\ Finished) =>
          /\ result.type = FUNCTION_OBJ
          /\ result.addr = envs[1].store["f"].addr

\* the made function saw z, bound after it was made
C33_Witness ==
    /\ program = MadeLaterProgram
    /\ Finished
    /\ IsInteger(result, 3)
    /\ envs[1].store["f"].type = FUNCTION_OBJ

\* C34: == on two Strings yields true exactly when their contents are equal,
\* and != the opposite, also for two String objects of separate evaluations.
C34_StringEquality ==
    InfixApplied =>
        LET e == Last("infix")
        IN  (e.op \in {"==", "!="} /\ e.left.type = STRING_OBJ /\ e.right.type = STRING_OBJ) =>
                /\ result.type = BOOLEAN_OBJ
                /\ result.Value = IF e.op = "==" THEN e.left.Value = e.right.Value
                                  ELSE e.left.Value # e.right.Value

AliasDone == pkg = "golemjs" /\ program \in AliasPrograms /\ Finished

\* C36 (golemjs): push(a, v) returns a new Array of a's elements followed by
\* v, rest(a) on a non-empty a returns a new Array of a's elements after the
\* first, and a, under each of its bindings, is the Array it was.
C36_PushRestCopy ==
    AliasDone =>
        LET x == program.Statements[3].Expression
            f == x.Function.Value
            n == Len(program.Statements[1].Value.Elements)
            a == envs[1].store["a"]
            b == envs[1].store["b"]
        IN  /\ a.type = ARRAY_OBJ /\ a.Elements = [k \in 1..n |-> Integer(10 * k)]
            /\ b = a
            /\ f = "push" =>
                /\ result.type = ARRAY_OBJ /\ result.addr # a.addr
                /\ Len(result.Elements) = n + 1
                /\ SubSeq(result.Elements, 1, n) = a.Elements
                /\ result.Elements[n + 1] = IF Len(x.Arguments) = 2 /\ x.Arguments[2].type = "Identifier"
                                            THEN a ELSE Integer(1)
            /\ (f = "rest" /\ n > 0) =>
                /\ result.type = ARRAY_OBJ /\ result.addr # a.addr
                /\ result.Elements = [k \in 1..(n - 1) |-> Integer(10 * (k + 1))]

\* push(b, a) on a of two elements: [10, 20, a], and a is [10, 20]
C36_Witness ==
    /\ AliasDone
    /\ program.Statements[3].Expression.Function.Value = "push"
    /\ result.type = ARRAY_OBJ /\ Len(result.Elements) = 3
    /\ result.Elements[3] = envs[1].store["b"]
    /\ Len(envs[1].store["a"].Elements) = 2

\* an Error or a ReturnValue
IsSignal(obj) == obj.type \in {ERROR_OBJ, RETURN_VALUE_OBJ}

\* obj is an Array or a Hash that holds a signal, at any depth
RECURSIVE HoldsSignal(_)
HoldsSignal(obj) ==
    CASE obj.type = ARRAY_OBJ ->
            \E k \in DOMAIN obj.Elements : IsSignal(obj.Elements[k]) \/ HoldsSignal(obj.Elements[k])
      [] obj.type = HASH_OBJ ->
            \E k \in DOMAIN obj.Pairs :
                IsSignal(obj.Pairs[k].Value) \/ HoldsSignal(obj.Pairs[k].Value)
      [] OTHER -> FALSE

\* C37: no Environment binding, no Array element and no Hash value holds an
\* Error or a ReturnValue, in any state of an evaluation.
C37_SignalsNotStored ==
    /\ \A e \in DOMAIN envs : \A name \in DOMAIN envs[e].store :
            ~IsSignal(envs[e].store[name]) /\ ~HoldsSignal(envs[e].store[name])
    /\ ~HoldsSignal(result)

\* C38: an EOF Token is returned only with the cursor at or past the end of
\* the input, and every Token after an EOF Token is EOF, for every input.
C38_EOFOnlyAtEnd ==
    Lexing =>
        \A k \in DOMAIN tokens :
            Tok(k).Type = EOF =>
                /\ tokens[k].start >= Len(lexer.input)
                /\ \A j \in DOMAIN tokens : j > k => Tok(j).Type = EOF

\* C39: Parse terminates on every input: each iteration of its loop breaks or
\* strictly increases pos, and pos stays between 0 and the length of the input.
C39_ParseTerminates ==
    /\ <>(parser.at = "done")
    /\ [](parser.pos >= 0 /\ parser.pos <= Len(parser.input))
    /\ [][(parser.at = "loop" /\ parser'.at = "loop") => parser'.pos > parser.pos]_vars

\* C40: after every iteration of Parse's loop the stack of open elements is
\* not empty, the document root is at its bottom, and current is the node at
\* its top.
C40_CurrentIsTop ==
    parser.at \in {"loop", "done"} =>
        /\ Len(parser.stack) >= 1
        /\ parser.stack[1] = 1
        /\ parser.current = parser.stack[Len(parser.stack)]

====
